---- MODULE Spec2Model ----
(***************************************************************************)
(* A state-machine model of the cheque manager: the SQLite store kept by   *)
(* DatabaseManager (src/database/db_manager.py), the operations of         *)
(* SmartAutomation (src/automation/smart_automation.py) and                *)
(* SecurityManager (src/security/security_manager.py), and the UI handlers *)
(* that write to the same tables with ad hoc SQL.                          *)
(*                                                                         *)
(* Conventions.  A table is a set of rows, a row is a record whose fields  *)
(* carry the column names.  SQL NULL / Python None in an integer column is *)
(* NULL (0): AUTOINCREMENT ids start at 1, and Python's truth test         *)
(* "if user_id:" treats None and 0 alike.  Every action models one whole   *)
(* call: a statement that raises inside "with sqlite3.connect(...)" rolls  *)
(* the connection back, so a raising call leaves the tables as they were.  *)
(* ret is the outcome of the last call: the value returned, or the         *)
(* exception that left the method.                                         *)
(***************************************************************************)
EXTENDS Integers, Sequences, FiniteSets, TLC

VARIABLES
    banks,          \* table banks: id -> [code, active]
    branches,       \* table branches: id -> [bank_id, name, active]
    clients,        \* table clients: set of [id, name, phone_ok, email_ok, active]
    cheques,        \* table cheques: set of [id, cheque_number, branch_id, client_id, amount, status, due_date, created_at]
    users,          \* table users: id -> [role, active]
    notifications,  \* table notifications: set of [id, type, cheque_id, user_id, read, day]
    user_sessions,  \* table user_sessions: set of [session_token, user_id, expires_at, is_active]
    nextChequeId,   \* AUTOINCREMENT counter of cheques
    nextClientId,   \* AUTOINCREMENT counter of clients
    nextNotifId,    \* AUTOINCREMENT counter of notifications
    today,          \* date('now'), a day number
    now,            \* datetime.now(), in seconds
    sent,           \* reminders handed to the SMS/SMTP gateways: set of [cheque_id, day, run]
    runs,           \* number of send_automated_reminders runs so far
    api_enabled,    \* SmartAutomation.bank_apis: the keys whose config has enabled = True
    backup,         \* the backup file: empty, or one copy of the database file
    import_job,     \* the bulk_import_cheques call in progress: rows left, counters
    reminder_threads, \* per thread, its send_automated_reminders call in progress
    audit_log,      \* table audit_log: set of [id, username, action, success, day]
    login_attempts, \* the attempts made at the login dialog: set of [n, username, success, at]
    saved_searches, \* AdvancedSearchFrame.saved_searches: sequence of [name, query, filters]
    saved_searches_table, \* table saved_searches: sequence of [name, query, filters] in rowid order
    auto_refresh,   \* EnhancedDashboardFrame.auto_refresh, the variable of the check box
    last_update,    \* EnhancedDashboardFrame.last_update, in seconds
    after_callbacks, \* the start_real_time_updates callbacks Tk holds: sequence of due times
    ret             \* outcome of the last call

vars == <<banks, branches, clients, cheques, users, notifications, user_sessions,
          nextChequeId, nextClientId, nextNotifId, today, now, sent, runs, api_enabled,
          backup, import_job, reminder_threads, audit_log, login_attempts,
          saved_searches, saved_searches_table, auto_refresh, last_update,
          after_callbacks, ret>>

-----------------------------------------------------------------------------
(* Bounds of the model *)

MaxCheques == 2      \* cheque rows ever inserted
MaxClients == 2      \* client rows ever inserted
MaxNotifs == 2       \* notification rows ever inserted
MaxRuns == 3         \* runs of send_automated_reminders
MaxDay == 2          \* calendar days the clock reaches
MaxNow == 7200       \* seconds the clock reaches
MaxRows == 2         \* rows of an import file
MaxDate == 10        \* days the clock reaches when whole weeks pass
MaxLogins == 6       \* attempts at the login dialog, rows of audit_log
MaxSearches == 3     \* searches in the list of the search frame
MaxCallbacks == 3    \* callbacks of self.after Tk holds
MaxTicks == 4        \* refresh intervals the clock of the dashboard reaches

(* NULL in an integer column *)
NULL == 0

-----------------------------------------------------------------------------
(* Schema: src/database/db_manager.py, init_database *)

\* CHECK(status IN (...)) of table cheques
ChequeStatuses == {"en_attente", "encaisse", "rejete", "impaye", "depose", "annule"}

\* The catalogue the model runs on: two banks added through add_bank /
\* _insert_default_data, one branch in each, and two users.
BankIds == {1, 2}
BranchIds == {1, 2}
UserIds == {1, 2}

\* The user logged in at the UI (MainWindow.current_user)
CurrentUser == 1

\* Values a caller passes as cheque number, amount and due date
ChequeNumbers == {"A1", "A2"}
Amounts == {100, 200}

\* The cheques table declared without its UNIQUE(cheque_number, branch_id)
NoUniqueConstraint(number, branch_id) == FALSE

\* UNIQUE(cheque_number, branch_id): SQLite treats NULLs as distinct, so a row
\* with a NULL branch_id never conflicts.
UniqueViolation(number, branch_id) ==
    /\ branch_id # NULL
    /\ \E c \in cheques : c.cheque_number = number /\ c.branch_id = branch_id

\* The cheques table declared without the CHECK on status
NoStatusCheck(status) == FALSE

\* CHECK(status IN (...)) evaluated on a text value
StatusCheckFails(status) == status \notin ChequeStatuses

-----------------------------------------------------------------------------
(* DatabaseManager.add_cheque *)

\* The row the INSERT of add_cheque writes for cheque_data
NewChequeRow(data) ==
    [id |-> nextChequeId,
     cheque_number |-> data.cheque_number,
     branch_id |-> data.branch_id,
     client_id |-> data.client_id,
     amount |-> data.amount,
     status |-> data.status,
     due_date |-> data.due_date,
     created_at |-> today]

\* Whether the INSERT of add_cheque raises sqlite3.IntegrityError
add_cheque_raises(data) ==
    \/ UniqueViolation(data.cheque_number, data.branch_id)
    \/ StatusCheckFails(data.status)

\* The cheques table after add_cheque(data): unchanged when the INSERT raises
\* (the connection context manager rolls back), one more row otherwise.
add_cheque_table(data) ==
    IF add_cheque_raises(data) THEN cheques ELSE cheques \cup {NewChequeRow(data)}

\* DatabaseManager.add_cheque called directly with cheque_data
add_cheque(data) ==
    /\ nextChequeId <= MaxCheques
    /\ cheques' = add_cheque_table(data)
    /\ nextChequeId' = IF add_cheque_raises(data) THEN nextChequeId ELSE nextChequeId + 1
    /\ ret' = IF add_cheque_raises(data)
              THEN [op |-> "add_cheque", outcome |-> "IntegrityError",
                    cheque_number |-> data.cheque_number, branch_id |-> data.branch_id,
                    status |-> data.status]
              ELSE [op |-> "add_cheque", outcome |-> "ok",
                    cheque_number |-> data.cheque_number, branch_id |-> data.branch_id,
                    status |-> data.status]
    /\ UNCHANGED <<banks, branches, clients, users, notifications, user_sessions,
                   nextClientId, nextNotifId, today, now, sent, runs, api_enabled, backup, import_job,
                   reminder_threads,
                   audit_log, login_attempts,
                   saved_searches, saved_searches_table,
                   auto_refresh, last_update, after_callbacks>>

-----------------------------------------------------------------------------
(* DatabaseManager.add_client, search_clients, get_branches, get_cheques *)

\* name LIKE '%term%' on the client names the model uses
NameContains(name, term) ==
    \/ name = term
    \/ term = "Ali" /\ name = "Alice"

\* ORDER BY name on the client names the model uses
NameBefore(n1, n2) == n1 = "Ali" /\ n2 = "Alice"

\* The row the INSERT of add_client writes; lastrowid is nextClientId
NewClientRow(name, phone_ok, email_ok) ==
    [id |-> nextClientId, name |-> name, phone_ok |-> phone_ok,
     email_ok |-> email_ok, active |-> TRUE]

\* search_clients(term): active clients whose name contains the term
search_clients(term) ==
    {c \in clients : c.active /\ NameContains(c.name, term)}

\* clients[0] of search_clients: first by name, and among equal names SQLite
\* returns the rows in rowid order
FirstClient(found) ==
    CHOOSE c \in found :
        \A d \in found : d = c \/ NameBefore(c.name, d.name)
                               \/ (c.name = d.name /\ c.id < d.id)

\* get_branches(): ids of the branches with active = TRUE (the JOIN with banks
\* does not look at the bank's flag)
get_branches == {b \in BranchIds : branches[b].active}

\* get_cheques(filters) for filters on branch_id and bank_id: LEFT JOINs with
\* clients, branches and banks, none of them restricted to active rows.
\* A filter of NULL stands for a key absent from filters.
get_cheques(branch_filter, bank_filter) ==
    {c \in cheques :
        /\ branch_filter # NULL => c.branch_id = branch_filter
        /\ bank_filter # NULL =>
              (c.branch_id \in BranchIds /\ branches[c.branch_id].bank_id = bank_filter)}

-----------------------------------------------------------------------------
(* ChequeFormFrame.save_cheque *)

\* save_cheque with a form that passed validate_form: add_client when a
\* client name is typed, then add_cheque; an exception of add_cheque is caught
\* and shown, after the client row was committed by its own connection.
save_cheque(form) ==
    LET newClient == form.client_name # ""
        data == [cheque_number |-> form.cheque_number, branch_id |-> form.branch_id,
                 client_id |-> IF newClient THEN nextClientId ELSE NULL,
                 amount |-> form.amount, status |-> form.status,
                 due_date |-> form.due_date]
    IN /\ nextChequeId <= MaxCheques
       /\ newClient => nextClientId <= MaxClients
       /\ clients' = IF newClient
                     THEN clients \cup {NewClientRow(form.client_name, form.phone_ok, form.email_ok)}
                     ELSE clients
       /\ nextClientId' = IF newClient THEN nextClientId + 1 ELSE nextClientId
       /\ cheques' = add_cheque_table(data)
       /\ nextChequeId' = IF add_cheque_raises(data) THEN nextChequeId ELSE nextChequeId + 1
       /\ ret' = [op |-> "save_cheque",
                  outcome |-> IF add_cheque_raises(data) THEN "error_shown" ELSE "ok",
                  cheque_number |-> data.cheque_number, branch_id |-> data.branch_id,
                    status |-> data.status]
       /\ UNCHANGED <<banks, branches, users, notifications, user_sessions,
                      nextNotifId, today, now, sent, runs, api_enabled, backup, import_job,
                   reminder_threads,
                   audit_log, login_attempts,
                   saved_searches, saved_searches_table,
                   auto_refresh, last_update, after_callbacks>>

-----------------------------------------------------------------------------
(* ChequeListFrame.duplicate_selected, delete_selected *)

\* f"{cheque['cheque_number']}_COPY"
CopyNumber(number) == number \o "_COPY"

\* duplicate_selected on the selected row c: a copy with the number suffixed
\* and status en_attente goes through add_cheque; an exception is shown.
duplicate_selected(c) ==
    LET data == [cheque_number |-> CopyNumber(c.cheque_number), branch_id |-> c.branch_id,
                 client_id |-> c.client_id, amount |-> c.amount,
                 status |-> "en_attente", due_date |-> c.due_date]
    IN /\ c \in cheques
       /\ nextChequeId <= MaxCheques
       /\ cheques' = add_cheque_table(data)
       /\ nextChequeId' = IF add_cheque_raises(data) THEN nextChequeId ELSE nextChequeId + 1
       /\ ret' = [op |-> "duplicate_selected",
                  outcome |-> IF add_cheque_raises(data) THEN "error_shown" ELSE "ok",
                  cheque_number |-> data.cheque_number, branch_id |-> data.branch_id,
                    status |-> data.status]
       /\ UNCHANGED <<banks, branches, clients, users, notifications, user_sessions,
                      nextClientId, nextNotifId, today, now, sent, runs, api_enabled, backup, import_job,
                   reminder_threads,
                   audit_log, login_attempts,
                   saved_searches, saved_searches_table,
                   auto_refresh, last_update, after_callbacks>>

\* delete_selected on the selected row c: DELETE FROM cheques WHERE id = ?
delete_selected_cheque(c) ==
    /\ c \in cheques
    /\ cheques' = cheques \ {c}
    /\ ret' = [op |-> "delete_selected_cheque", outcome |-> "ok", id |-> c.id]
    /\ UNCHANGED <<banks, branches, clients, users, notifications, user_sessions,
                   nextChequeId, nextClientId, nextNotifId, today, now, sent, runs, api_enabled, backup, import_job,
                   reminder_threads,
                   audit_log, login_attempts,
                   saved_searches, saved_searches_table,
                   auto_refresh, last_update, after_callbacks>>

-----------------------------------------------------------------------------
(* SmartAutomation.detect_advanced_duplicates *)


\* _calculate_cheque_similarity with the branch weight taken off the score of
\* a pair of the same branch
calculate_cheque_similarity_penalty(c1, c2) ==
    (IF c1.cheque_number = c2.cheque_number THEN 5000 ELSE 0)
    + (IF c1.amount = c2.amount THEN 3000 ELSE 0)
    + (IF c1.client_id = c2.client_id THEN 1500 ELSE 0)
    + (IF c1.branch_id = c2.branch_id THEN 0 ELSE 500)

\* _calculate_cheque_similarity, in units of 0.0001.  The score is a sum of
\* IEEE-754 doubles accumulated in the order number, amount, client, branch;
\* where the double differs from the decimal sum the difference is kept as one
\* unit: 0.3+0.15 = 0.44999999999999996, 0.3+0.15+0.05 = 0.49999999999999994,
\* 0.5+0.15+0.05 = 0.7000000000000001, 0.5+0.3+0.05 = 0.8500000000000001,
\* 0.5+0.3+0.15 = 0.9500000000000001.  Python's == holds of None and None.
calculate_cheque_similarity(c1, c2) ==
    LET n == c1.cheque_number = c2.cheque_number
        a == c1.amount = c2.amount
        c == c1.client_id = c2.client_id
        b == c1.branch_id = c2.branch_id
        exact == (IF n THEN 5000 ELSE 0) + (IF a THEN 3000 ELSE 0)
                 + (IF c THEN 1500 ELSE 0) + (IF b THEN 500 ELSE 0)
        residue == IF ~n /\ a /\ c THEN -1
                   ELSE IF n /\ ~a /\ c /\ b THEN 1
                   ELSE IF n /\ a /\ (c # b) THEN 1
                   ELSE 0
        score == exact + residue
    IN IF score < 10000 THEN score ELSE 10000

\* The rows the SELECT of detect_advanced_duplicates returns: same number, or
\* same amount and same (non-NULL) client; the third alternative of the WHERE
\* clause, the same amount within 0.01 and the same client in the last 30
\* days, selects a subset of the second on the amounts of the model.
potential_matches(data) ==
    {m \in cheques :
        \/ m.cheque_number = data.cheque_number
        \/ (m.amount = data.amount /\ data.client_id # NULL /\ m.client_id = data.client_id)}

\* detect_advanced_duplicates(data): the matches scoring above the threshold
\* "similarity_score > 0.7"
detect_advanced_duplicates(data) ==
    {m \in potential_matches(data) : calculate_cheque_similarity(data, m) > 7000}

-----------------------------------------------------------------------------
(* The two scoring functions called on their own *)

\* A call of SmartAutomation._calculate_cheque_similarity(cheque1, cheque2)
call_calculate_cheque_similarity(c1, c2) ==
    /\ ret' = [op |-> "_calculate_cheque_similarity", outcome |-> "ok",
               c1 |-> c1, c2 |-> c2, score |-> calculate_cheque_similarity(c1, c2)]
    /\ UNCHANGED <<banks, branches, clients, cheques, users, notifications, user_sessions,
                   nextChequeId, nextClientId, nextNotifId, today, now, sent, runs,
                   api_enabled, backup, import_job,
                   reminder_threads,
                   audit_log, login_attempts,
                   saved_searches, saved_searches_table,
                   auto_refresh, last_update, after_callbacks>>

\* abs((date1 - date2).days) of two created_at values given as day numbers
days_diff(date1, date2) == IF date1 >= date2 THEN date1 - date2 ELSE date2 - date1

\* Whether strptime parses both created_at values: a NULL makes it raise, and
\* the bare except leaves the date out of the score
dates_parse(row) == row.date1 # NULL /\ row.date2 # NULL

\* The points for the date: 0.2 within a day, 0.1 within seven days
date_points(row) ==
    IF ~dates_parse(row) THEN 0
    ELSE IF days_diff(row.date1, row.date2) <= 1 THEN 2000
    ELSE IF days_diff(row.date1, row.date2) <= 7 THEN 1000
    ELSE 0

\* _calculate_similarity_score without "min(score, 1.0)"
calculate_similarity_score_uncapped(row) ==
    (IF row.number1 = row.number2 THEN 5000 ELSE 0)
    + (IF row.amount1 = row.amount2 THEN 3000 ELSE 0)
    + (IF row.client1 = row.client2 THEN 2000 ELSE 0)
    + date_points(row)

\* AdvancedAnalytics._calculate_similarity_score(row), in units of 0.0001.
\* The score is a sum of IEEE-754 doubles accumulated in the order number,
\* amount, client, date; where the double differs from the decimal sum the
\* difference is kept as one unit (0.2 + 0.1 is 0.30000000000000004 and
\* 0.5 + 0.2 + 0.1 is 0.7999999999999999).
calculate_similarity_score(row) ==
    LET n == row.number1 = row.number2
        a == row.amount1 = row.amount2
        c == row.client1 = row.client2
        d == date_points(row)
        exact == (IF n THEN 5000 ELSE 0) + (IF a THEN 3000 ELSE 0)
                 + (IF c THEN 2000 ELSE 0) + d
        residue == IF ~n /\ ~a /\ c /\ d = 1000 THEN 1
                   ELSE IF n /\ ~a /\ c /\ d > 0 THEN -1
                   ELSE 0
        score == exact + residue
    IN IF score < 10000 THEN score ELSE 10000

\* A call of AdvancedAnalytics._calculate_similarity_score(row)
call_calculate_similarity_score(row) ==
    /\ ret' = [op |-> "_calculate_similarity_score", outcome |-> "ok",
               row |-> row, score |-> calculate_similarity_score(row)]
    /\ UNCHANGED <<banks, branches, clients, cheques, users, notifications, user_sessions,
                   nextChequeId, nextClientId, nextNotifId, today, now, sent, runs,
                   api_enabled, backup, import_job,
                   reminder_threads,
                   audit_log, login_attempts,
                   saved_searches, saved_searches_table,
                   auto_refresh, last_update, after_callbacks>>

-----------------------------------------------------------------------------
(* The two duplicate reports *)

\* A call of detect_advanced_duplicates(cheque_data): the ids of the rows it
\* reports
call_detect_advanced_duplicates(data) ==
    /\ ret' = [op |-> "detect_advanced_duplicates", outcome |-> "ok", data |-> data,
               reported |-> {m.id : m \in detect_advanced_duplicates(data)}]
    /\ UNCHANGED <<banks, branches, clients, cheques, users, notifications, user_sessions,
                   nextChequeId, nextClientId, nextNotifId, today, now, sent, runs,
                   api_enabled, backup, import_job,
                   reminder_threads,
                   audit_log, login_attempts,
                   saved_searches, saved_searches_table,
                   auto_refresh, last_update, after_callbacks>>

\* The row of the self-join of get_duplicate_detection_analysis for c1, c2
PairRow(c1, c2) ==
    [number1 |-> c1.cheque_number, amount1 |-> c1.amount, client1 |-> c1.client_id,
     date1 |-> c1.created_at,
     number2 |-> c2.cheque_number, amount2 |-> c2.amount, client2 |-> c2.client_id,
     date2 |-> c2.created_at]

\* The pairs the SELECT of get_duplicate_detection_analysis returns: c1.id <
\* c2.id with the same number, or the same amount and the same (non-NULL)
\* client and created within 7 days of each other
potential_duplicates ==
    {pair \in cheques \X cheques :
        /\ pair[1].id < pair[2].id
        /\ \/ pair[1].cheque_number = pair[2].cheque_number
           \/ /\ pair[1].amount = pair[2].amount
              /\ pair[1].client_id # NULL
              /\ pair[1].client_id = pair[2].client_id
              /\ days_diff(pair[1].created_at, pair[2].created_at) <= 7}

\* get_duplicate_detection_analysis(): the pairs scoring above the threshold
\* "similarity_score > 0.7", as pairs of ids
get_duplicate_detection_analysis ==
    /\ ret' = [op |-> "get_duplicate_detection_analysis", outcome |-> "ok",
               reported |-> {<<pair[1].id, pair[2].id>> :
                               pair \in {q \in potential_duplicates :
                                   calculate_similarity_score(PairRow(q[1], q[2])) > 7000}}]
    /\ UNCHANGED <<banks, branches, clients, cheques, users, notifications, user_sessions,
                   nextChequeId, nextClientId, nextNotifId, today, now, sent, runs,
                   api_enabled, backup, import_job,
                   reminder_threads,
                   audit_log, login_attempts,
                   saved_searches, saved_searches_table,
                   auto_refresh, last_update, after_callbacks>>

\* n days go by
days_pass(n) ==
    /\ today + n <= MaxDate
    /\ today' = today + n
    /\ ret' = [op |-> "days_pass", outcome |-> "ok"]
    /\ UNCHANGED <<banks, branches, clients, cheques, users, notifications, user_sessions,
                   nextChequeId, nextClientId, nextNotifId, now, sent, runs, api_enabled,
                   backup, import_job,
                   reminder_threads,
                   audit_log, login_attempts,
                   saved_searches, saved_searches_table,
                   auto_refresh, last_update, after_callbacks>>

-----------------------------------------------------------------------------
(* The two risk scores.  Scores are in units of 0.001 point; the inputs of   *)
(* the model are chosen so that every term is a whole number of units.      *)

Min(a, b) == IF a <= b THEN a ELSE b
Max(a, b) == IF a >= b THEN a ELSE b

\* last_bounce_date / last_cheque_date of a client: no date (None), a text
\* strptime rejects, or a date that many days before datetime.now()
NoDate == [given |-> FALSE, parses |-> FALSE, days |-> 0]
BadDate == [given |-> TRUE, parses |-> FALSE, days |-> 0]
DaysAgo(n) == [given |-> TRUE, parses |-> TRUE, days |-> n]

\* _calculate_risk_score with the bounce factor turned round
calculate_risk_score_inverted(f) ==
    40000 - Min((200000 * f.bounced_cheques) \div f.total_cheques, 40000)

\* AdvancedAnalytics._calculate_risk_score on the aggregates of one client;
\* bounce_rate is bounced_cheques / total_cheques * 100, as
\* calculate_client_risk_profiles passes it
calculate_risk_score(f) ==
    LET bounce == Min((200000 * f.bounced_cheques) \div f.total_cheques, 40000)
        volume == IF f.total_cheques < 5 THEN 20000
                  ELSE IF f.total_cheques < 20 THEN 10000 ELSE 0
        amount == IF f.total_amount < 10000 THEN 15000
                  ELSE IF f.total_amount < 50000 THEN 8000 ELSE 0
        processing == IF f.avg_processing_time > 30 THEN 10000
                      ELSE IF f.avg_processing_time > 14 THEN 5000 ELSE 0
        recent == IF ~f.last_bounce.given \/ ~f.last_bounce.parses THEN 0
                  ELSE IF f.last_bounce.days < 30 THEN 15000
                  ELSE IF f.last_bounce.days < 90 THEN 10000
                  ELSE IF f.last_bounce.days < 180 THEN 5000 ELSE 0
    IN Min(bounce + volume + amount + processing + recent, 100000)

\* A call of _calculate_risk_score
call_calculate_risk_score(f) ==
    /\ ret' = [op |-> "_calculate_risk_score", outcome |-> "ok", features |-> f,
               score |-> calculate_risk_score(f)]
    /\ UNCHANGED <<banks, branches, clients, cheques, users, notifications, user_sessions,
                   nextChequeId, nextClientId, nextNotifId, today, now, sent, runs,
                   api_enabled, backup, import_job,
                   reminder_threads,
                   audit_log, login_attempts,
                   saved_searches, saved_searches_table,
                   auto_refresh, last_update, after_callbacks>>

\* The weighted sum of calculate_ai_risk_score before "min(100, max(0, ...))"
ai_weighted_sum(f) ==
    LET bounce == (40000 * f.bounced_cheques) \div f.total_cheques
        \* recency_score = max(0, 100 - days / 30 * 10), 0 when the date does
        \* not parse; the term is (100 - recency_score) * 0.15
        recency == IF ~f.last_cheque.parses THEN 15000
                   ELSE IF f.last_cheque.days >= 300 THEN 15000
                   ELSE 50 * f.last_cheque.days
        volume == 150 * (100 - Min(100, 2 * f.total_cheques))
        amount == 10000 - Min(5000, f.avg_amount \div 10)
        \* "... if avg_processing_time else 100": 0 and None give score 100
        processing == IF f.avg_processing_time = 0 THEN 0
                      ELSE 100 * (100 - Max(0, 100 - 2 * f.avg_processing_time))
        diversification == 100 * (100 - Min(100, 20 * f.banks_used))
    IN bounce + recency + volume + amount + processing + diversification

\* calculate_ai_risk_score without the final clamp
calculate_ai_risk_score_unclamped(f) ==
    IF f.raises \/ f.total_cheques = 0 THEN 50000 ELSE ai_weighted_sum(f)

\* SmartAutomation.calculate_ai_risk_score on the row its SELECT returns:
\* 50.0 for a client without cheques and on any exception
calculate_ai_risk_score(f) ==
    IF f.raises \/ f.total_cheques = 0 THEN 50000
    ELSE Min(100000, Max(0, ai_weighted_sum(f)))

\* A call of calculate_ai_risk_score
call_calculate_ai_risk_score(f) ==
    /\ ret' = [op |-> "calculate_ai_risk_score", outcome |-> "ok", features |-> f,
               score |-> calculate_ai_risk_score(f)]
    /\ UNCHANGED <<banks, branches, clients, cheques, users, notifications, user_sessions,
                   nextChequeId, nextClientId, nextNotifId, today, now, sent, runs,
                   api_enabled, backup, import_job,
                   reminder_threads,
                   audit_log, login_attempts,
                   saved_searches, saved_searches_table,
                   auto_refresh, last_update, after_callbacks>>

-----------------------------------------------------------------------------
(* SecurityManager: roles and permissions *)

\* The values of the enum UserRole
UserRole == {"admin", "manager", "employee", "readonly"}

\* CHECK(role IN (...)) of the table users
users_role_check == {"admin", "comptable", "agent", "readonly"}

\* _load_role_permissions
role_permissions ==
    [role \in UserRole |->
        CASE role = "admin" ->
                {"cheque.create", "cheque.read", "cheque.update", "cheque.delete",
                 "client.create", "client.read", "client.update", "client.delete",
                 "bank.create", "bank.read", "bank.update", "bank.delete",
                 "user.create", "user.read", "user.update", "user.delete",
                 "report.generate", "report.export",
                 "system.backup", "system.restore", "system.configure",
                 "audit.read"}
          [] role = "manager" ->
                {"cheque.create", "cheque.read", "cheque.update",
                 "client.create", "client.read", "client.update",
                 "bank.read", "report.generate", "report.export", "system.backup"}
          [] role = "employee" ->
                {"cheque.create", "cheque.read", "cheque.update",
                 "client.read", "client.update", "bank.read", "report.generate"}
          [] role = "readonly" ->
                {"cheque.read", "client.read", "bank.read", "report.generate"}]

\* Every permission the table names
Permissions == UNION {role_permissions[role] : role \in UserRole}

\* check_user_permissions: UserRole(user_role) raises ValueError for a text
\* that is not a value of the enum, and the handler returns False
check_user_permissions(user_role, required_permission) ==
    IF user_role \in UserRole
    THEN required_permission \in role_permissions[user_role]
    ELSE FALSE

\* A call of check_user_permissions
call_check_user_permissions(user_role, required_permission) ==
    /\ ret' = [op |-> "check_user_permissions", outcome |-> "ok",
               user_role |-> user_role, required_permission |-> required_permission,
               value |-> check_user_permissions(user_role, required_permission)]
    /\ UNCHANGED <<banks, branches, clients, cheques, users, notifications, user_sessions,
                   nextChequeId, nextClientId, nextNotifId, today, now, sent, runs,
                   api_enabled, backup, import_job,
                   reminder_threads,
                   audit_log, login_attempts,
                   saved_searches, saved_searches_table,
                   auto_refresh, last_update, after_callbacks>>

-----------------------------------------------------------------------------
(* SmartAutomation.bulk_import_cheques, one row of the file *)

\* pd.to_datetime(row['due_date']) in _validate_import_row: pandas is imported
\* as pd inside bulk_import_cheques only (a local name of that function), so
\* the name pd is unbound in _validate_import_row, the call raises NameError
\* and the bare except around it answers 'Date d'échéance invalide'.
to_datetime_raises(row) == TRUE

\* branch_name.lower() in branch['name'].lower() on the branch names of the
\* model: a branch is found by its own name
find_branch_id(branch_name) ==
    IF \E b \in get_branches : branches[b].name = branch_name
    THEN CHOOSE b \in get_branches :
            branches[b].name = branch_name
            /\ \A o \in get_branches : branches[o].name = branch_name => b <= o
    ELSE NULL

\* The error _validate_import_row reports before it touches the database, or
\* "" when the row passes the checks on number, amount and date
import_row_error(row) ==
    IF row.cheque_number = "" THEN "Numéro de chèque manquant"
    ELSE IF row.amount <= 0 THEN "Montant invalide"
    ELSE IF to_datetime_raises(row) THEN "Date d'échéance invalide"
    ELSE IF row.client_name = "" THEN "Nom du client manquant"
    ELSE ""

\* _validate_import_row with _find_or_create_client called before the checks on
\* number, amount and date: a row that fails them has created its client
bulk_import_row_client_first(row) ==
    LET err == import_row_error(row)
        found == search_clients(row.client_name)
        creates == found = {}
        client_id == IF found # {} THEN FirstClient(found).id ELSE nextClientId
        branch_id == find_branch_id(row.branch_name)
        data == [cheque_number |-> row.cheque_number, branch_id |-> branch_id,
                 client_id |-> client_id, amount |-> row.amount,
                 status |-> "en_attente", due_date |-> row.due_date]
        outcome == IF err # "" THEN err
                   ELSE IF branch_id = NULL THEN "Agence non trouvée"
                   ELSE IF detect_advanced_duplicates(data) # {} THEN "Doublon détecté"
                   ELSE IF add_cheque_raises(data) THEN "Erreur"
                   ELSE "imported"
    IN /\ nextChequeId <= MaxCheques
       /\ creates => nextClientId <= MaxClients
       /\ clients' = IF creates
                     THEN clients \cup {NewClientRow(row.client_name, FALSE, FALSE)}
                     ELSE clients
       /\ nextClientId' = IF creates THEN nextClientId + 1 ELSE nextClientId
       /\ cheques' = IF outcome = "imported" THEN cheques \cup {NewChequeRow(data)} ELSE cheques
       /\ nextChequeId' = IF outcome = "imported" THEN nextChequeId + 1 ELSE nextChequeId
       /\ ret' = [op |-> "bulk_import_row", outcome |-> outcome,
                  cheque_number |-> row.cheque_number, branch_id |-> branch_id]
       /\ UNCHANGED <<banks, branches, users, notifications, user_sessions,
                      nextNotifId, today, now, sent, runs, api_enabled, backup, reminder_threads,
                   audit_log, login_attempts,
                   saved_searches, saved_searches_table,
                   auto_refresh, last_update, after_callbacks>>

\* One iteration of the loop of bulk_import_cheques: _validate_import_row
\* (which calls _find_or_create_client before it looks for the branch), then
\* detect_advanced_duplicates, then add_cheque; every failure becomes an
\* entry of errors.  The counters of the call are left to the caller.
bulk_import_row(row) ==
    LET err == import_row_error(row)
        found == search_clients(row.client_name)
        creates == err = "" /\ found = {}
        client_id == IF found # {} THEN FirstClient(found).id ELSE nextClientId
        branch_id == find_branch_id(row.branch_name)
        data == [cheque_number |-> row.cheque_number, branch_id |-> branch_id,
                 client_id |-> client_id, amount |-> row.amount,
                 status |-> "en_attente", due_date |-> row.due_date]
        outcome == IF err # "" THEN err
                   ELSE IF branch_id = NULL THEN "Agence non trouvée"
                   ELSE IF detect_advanced_duplicates(data) # {} THEN "Doublon détecté"
                   ELSE IF add_cheque_raises(data) THEN "Erreur"
                   ELSE "imported"
    IN /\ nextChequeId <= MaxCheques
       /\ creates => nextClientId <= MaxClients
       /\ clients' = IF creates
                     THEN clients \cup {NewClientRow(row.client_name, FALSE, FALSE)}
                     ELSE clients
       /\ nextClientId' = IF creates THEN nextClientId + 1 ELSE nextClientId
       /\ cheques' = IF outcome = "imported" THEN cheques \cup {NewChequeRow(data)} ELSE cheques
       /\ nextChequeId' = IF outcome = "imported" THEN nextChequeId + 1 ELSE nextChequeId
       /\ ret' = [op |-> "bulk_import_row", outcome |-> outcome,
                  cheque_number |-> row.cheque_number, branch_id |-> branch_id]
       /\ UNCHANGED <<banks, branches, users, notifications, user_sessions,
                      nextNotifId, today, now, sent, runs, api_enabled, backup, reminder_threads,
                   audit_log, login_attempts,
                   saved_searches, saved_searches_table,
                   auto_refresh, last_update, after_callbacks>>

-----------------------------------------------------------------------------
(* SmartAutomation.bulk_import_cheques, the whole call.  The automation     *)
(* dialog runs it on a thread of its own (run_async_task), so other calls   *)
(* can come between two rows.                                               *)

\* No call of bulk_import_cheques in progress
ImportIdle ==
    [active |-> FALSE, pending |-> <<>>, total_rows |-> 0, imported |-> 0, errors |-> <<>>]

\* bulk_import_cheques on a file without one of the required columns: the
\* answer is success False, imported 0 and no errors, before any row is read
bulk_import_missing_columns ==
    /\ ~import_job.active
    /\ ret' = [op |-> "bulk_import_cheques", outcome |-> "Colonnes manquantes",
               success |-> FALSE, imported |-> 0, total_rows |-> 0, errors |-> 0]
    /\ UNCHANGED <<banks, branches, clients, cheques, users, notifications, user_sessions,
                   nextChequeId, nextClientId, nextNotifId, today, now, sent, runs,
                   api_enabled, backup, import_job,
                   reminder_threads,
                   audit_log, login_attempts,
                   saved_searches, saved_searches_table,
                   auto_refresh, last_update, after_callbacks>>

\* bulk_import_cheques on a file with the required columns, up to the loop:
\* imported_count = 0, errors = []
bulk_import_begin(file) ==
    /\ ~import_job.active
    /\ nextChequeId + Len(file) - 1 <= MaxCheques
    /\ import_job' = [active |-> TRUE, pending |-> file, total_rows |-> Len(file),
                      imported |-> 0, errors |-> <<>>]
    /\ ret' = [op |-> "bulk_import_begin", outcome |-> "ok"]
    /\ UNCHANGED <<banks, branches, clients, cheques, users, notifications, user_sessions,
                   nextChequeId, nextClientId, nextNotifId, today, now, sent, runs,
                   api_enabled, backup, reminder_threads,
                   audit_log, login_attempts,
                   saved_searches, saved_searches_table,
                   auto_refresh, last_update, after_callbacks>>

\* The loop with the rows that fail left out of errors
bulk_import_next_silent ==
    /\ import_job.active
    /\ import_job.pending # <<>>
    /\ bulk_import_row(Head(import_job.pending))
    /\ import_job' = [import_job EXCEPT
                         !.pending = Tail(@),
                         !.imported = IF ret'.outcome = "imported" THEN @ + 1 ELSE @]

\* One iteration of "for index, row in df.iterrows()": the row is counted in
\* imported_count when add_cheque returned, and adds one entry to errors
\* otherwise (validation error, duplicate, exception)
bulk_import_next ==
    /\ import_job.active
    /\ import_job.pending # <<>>
    /\ bulk_import_row(Head(import_job.pending))
    /\ import_job' = [import_job EXCEPT
                         !.pending = Tail(@),
                         !.imported = IF ret'.outcome = "imported" THEN @ + 1 ELSE @,
                         !.errors = IF ret'.outcome = "imported" THEN @
                                    ELSE Append(@, ret'.outcome)]

\* The return after the loop
bulk_import_return ==
    /\ import_job.active
    /\ import_job.pending = <<>>
    /\ ret' = [op |-> "bulk_import_cheques", outcome |-> "ok", success |-> TRUE,
               imported |-> import_job.imported, total_rows |-> import_job.total_rows,
               errors |-> Len(import_job.errors)]
    /\ import_job' = ImportIdle
    /\ UNCHANGED <<banks, branches, clients, cheques, users, notifications, user_sessions,
                   nextChequeId, nextClientId, nextNotifId, today, now, sent, runs,
                   api_enabled, backup, reminder_threads,
                   audit_log, login_attempts,
                   saved_searches, saved_searches_table,
                   auto_refresh, last_update, after_callbacks>>

-----------------------------------------------------------------------------
(* Soft deletes: DatabaseManager.delete_bank, SettingsFrame.delete_branch,  *)
(* SettingsFrame.delete_user                                               *)

\* delete_bank written as a hard delete: the bank is flagged and the cheques of
\* its branches go with it, as ON DELETE CASCADE would have it
delete_bank_cascade(bank_id) ==
    /\ banks' = IF bank_id \in BankIds
                THEN [banks EXCEPT ![bank_id].active = FALSE] ELSE banks
    /\ cheques' = {c \in cheques :
                      ~(c.branch_id \in BranchIds /\ branches[c.branch_id].bank_id = bank_id)}
    /\ ret' = [op |-> "delete_bank", outcome |-> "ok", id |-> bank_id,
               value |-> (bank_id \in BankIds)]
    /\ UNCHANGED <<branches, clients, users, notifications, user_sessions,
                   nextChequeId, nextClientId, nextNotifId, today, now, sent, runs, api_enabled, backup, import_job,
                   reminder_threads,
                   audit_log, login_attempts,
                   saved_searches, saved_searches_table,
                   auto_refresh, last_update, after_callbacks>>

\* UPDATE banks SET active = FALSE WHERE id = ?; returns rowcount > 0
delete_bank(bank_id) ==
    /\ banks' = IF bank_id \in BankIds
                THEN [banks EXCEPT ![bank_id].active = FALSE] ELSE banks
    /\ ret' = [op |-> "delete_bank", outcome |-> "ok", id |-> bank_id,
               value |-> (bank_id \in BankIds)]
    /\ UNCHANGED <<branches, clients, cheques, users, notifications, user_sessions,
                   nextChequeId, nextClientId, nextNotifId, today, now, sent, runs, api_enabled, backup, import_job,
                   reminder_threads,
                   audit_log, login_attempts,
                   saved_searches, saved_searches_table,
                   auto_refresh, last_update, after_callbacks>>

\* UPDATE branches SET active = FALSE WHERE id = ? on the row selected in the tree
delete_branch(branch_id) ==
    /\ branch_id \in BranchIds
    /\ branches' = [branches EXCEPT ![branch_id].active = FALSE]
    /\ ret' = [op |-> "delete_branch", outcome |-> "ok", id |-> branch_id]
    /\ UNCHANGED <<banks, clients, cheques, users, notifications, user_sessions,
                   nextChequeId, nextClientId, nextNotifId, today, now, sent, runs, api_enabled, backup, import_job,
                   reminder_threads,
                   audit_log, login_attempts,
                   saved_searches, saved_searches_table,
                   auto_refresh, last_update, after_callbacks>>

\* UPDATE users SET active = FALSE WHERE id = ?; the handler refuses the
\* logged-in user's own row with a warning
delete_user(user_id) ==
    /\ user_id \in UserIds
    /\ users' = IF user_id = CurrentUser THEN users
                ELSE [users EXCEPT ![user_id].active = FALSE]
    /\ ret' = [op |-> "delete_user",
               outcome |-> IF user_id = CurrentUser THEN "refused" ELSE "ok",
               id |-> user_id]
    /\ UNCHANGED <<banks, branches, clients, cheques, notifications, user_sessions,
                   nextChequeId, nextClientId, nextNotifId, today, now, sent, runs, api_enabled, backup, import_job,
                   reminder_threads,
                   audit_log, login_attempts,
                   saved_searches, saved_searches_table,
                   auto_refresh, last_update, after_callbacks>>

-----------------------------------------------------------------------------
(* DatabaseManager.update_cheque_status, ChequeListFrame.change_status *)

\* The keys of status_messages in _create_status_notification
StatusMessages == {"encaisse", "rejete", "impaye", "annule"}

\* The rows of cheques after UPDATE cheques SET status = ? WHERE id = ?
update_status_rows(cheque_id, new_status) ==
    {IF c.id = cheque_id THEN [c EXCEPT !.status = new_status] ELSE c : c \in cheques}

\* The row _create_status_notification inserts
StatusNotification(cheque_id, user_id) ==
    [id |-> nextNotifId, type |-> "status_change", cheque_id |-> cheque_id,
     user_id |-> user_id, read |-> FALSE, day |-> today]

\* Whether update_cheque_status inserts a notification: the UPDATE matched a
\* row ("cursor.rowcount > 0"), user_id is truthy and new_status has a message
update_notifies(cheque_id, new_status, user_id) ==
    /\ \E c \in cheques : c.id = cheque_id
    /\ ~StatusCheckFails(new_status)
    /\ user_id # NULL
    /\ new_status \in StatusMessages

\* One call of update_cheque_status, reported under the name op.  The UPDATE
\* raises IntegrityError when it matches a row and the value fails the CHECK;
\* nothing is committed then.  It returns rowcount > 0.
update_status_step(cheque_id, new_status, user_id, op) ==
    LET exists == \E c \in cheques : c.id = cheque_id
        raises == exists /\ StatusCheckFails(new_status)
        notifies == update_notifies(cheque_id, new_status, user_id)
    IN /\ notifies => nextNotifId <= MaxNotifs
       /\ cheques' = IF exists /\ ~raises
                     THEN update_status_rows(cheque_id, new_status) ELSE cheques
       /\ notifications' = IF notifies
                           THEN notifications \cup {StatusNotification(cheque_id, user_id)}
                           ELSE notifications
       /\ nextNotifId' = IF notifies THEN nextNotifId + 1 ELSE nextNotifId
       /\ ret' = [op |-> op,
                  outcome |-> IF raises THEN "IntegrityError" ELSE "ok",
                  value |-> exists /\ ~raises,
                  id |-> cheque_id, status |-> new_status]
       /\ UNCHANGED <<banks, branches, clients, users, user_sessions, nextChequeId,
                      nextClientId, today, now, sent, runs, api_enabled, backup, import_job,
                   reminder_threads,
                   audit_log, login_attempts,
                   saved_searches, saved_searches_table,
                   auto_refresh, last_update, after_callbacks>>

\* DatabaseManager.update_cheque_status(cheque_id, new_status, user_id)
update_cheque_status(cheque_id, new_status, user_id) ==
    update_status_step(cheque_id, new_status, user_id, "update_cheque_status")

\* update_cheque_status when the INSERT of _create_status_notification is
\* handed to a connection that commits statement by statement
notification_insert_raises_committed(cheque_id, new_status, user_id) ==
    /\ update_notifies(cheque_id, new_status, user_id)
    /\ cheques' = update_status_rows(cheque_id, new_status)
    /\ ret' = [op |-> "update_cheque_status", outcome |-> "OperationalError",
               value |-> FALSE, id |-> cheque_id, status |-> new_status]
    /\ UNCHANGED <<banks, branches, clients, users, notifications, user_sessions,
                   nextChequeId, nextClientId, nextNotifId, today, now, sent, runs,
                   api_enabled, backup, import_job, reminder_threads,
                   audit_log, login_attempts,
                   saved_searches, saved_searches_table,
                   auto_refresh, last_update, after_callbacks>>

\* update_cheque_status when the INSERT of _create_status_notification raises
\* (sqlite3.OperationalError: database is locked, disk full).  The UPDATE and
\* the INSERT go through the same cursor inside one "with sqlite3.connect(...)
\* as conn" block; the exception leaves the block, which rolls the pending
\* UPDATE back, and reaches the caller.
notification_insert_raises(cheque_id, new_status, user_id) ==
    /\ update_notifies(cheque_id, new_status, user_id)
    /\ ret' = [op |-> "update_cheque_status", outcome |-> "OperationalError",
               value |-> FALSE, id |-> cheque_id, status |-> new_status]
    /\ UNCHANGED <<banks, branches, clients, cheques, users, notifications, user_sessions,
                   nextChequeId, nextClientId, nextNotifId, today, now, sent, runs,
                   api_enabled, backup, import_job, reminder_threads,
                   audit_log, login_attempts,
                   saved_searches, saved_searches_table,
                   auto_refresh, last_update, after_callbacks>>

\* A call of update_cheque_status whose notification INSERT fails or not
call_update_cheque_status(cheque_id, new_status, user_id, insert_raises) ==
    IF insert_raises /\ update_notifies(cheque_id, new_status, user_id)
    THEN notification_insert_raises(cheque_id, new_status, user_id)
    ELSE update_cheque_status(cheque_id, new_status, user_id)

\* The statuses of the list's status buttons and of its context menu
StatusButtons == {"encaisse", "rejete", "impaye", "depose"}

\* change_status(new_status) on the selected row c, confirmed by the user
change_status(c, new_status) ==
    /\ c \in cheques
    /\ new_status \in StatusButtons
    /\ update_status_step(c.id, new_status, CurrentUser, "change_status")

-----------------------------------------------------------------------------
(* SmartAutomation.update_cheque_status_from_bank_api *)

\* The keys of the dict _load_bank_api_configs returns
ApiKeys == {"cih", "bmce", "awb"}

\* str.lower() on the strings the model passes through it
Lower(str) ==
    CASE str = "CIH" -> "cih"
      [] str = "BP" -> "bp"
      [] str = "CLEARED" -> "cleared"
      [] str = "Pending" -> "pending"
      [] OTHER -> str

\* "sub in key" on the strings the model uses: a string contains itself and
\* the empty string
Contains(key, sub) == sub = key \/ sub = ""

\* api_data.get('status') when the answer carries no status: None
NoStatus == "<None>"

\* status_mapping.get(...) answers None for a key it does not hold; "" stands
\* for None, both are false in "if new_status:"
NoMapping == ""

\* _map_bank_status_to_internal that passes an unknown status through
map_unknown_through(bank_status) == Lower(bank_status)

\* _map_bank_status_to_internal on a string: status_mapping.get(bank_status.lower())
map_bank_status_to_internal(bank_status) ==
    LET key == Lower(bank_status)
    IN CASE key = "cleared" -> "encaisse"
         [] key = "bounced" -> "rejete"
         [] key = "returned" -> "rejete"
         [] key = "pending" -> "en_attente"
         [] key = "processing" -> "depose"
         [] key = "cancelled" -> "annule"
         [] OTHER -> NoMapping

\* The first loop: an enabled API whose key contains the bank's code in lower case
has_bank_api(bank_code) ==
    \E key \in api_enabled : Contains(key, Lower(bank_code))

\* One call of update_cheque_status_from_bank_api.  resp is what requests.post
\* does: it raises (timeout, no connection) or answers with a status code and
\* a JSON body whose 'status' may be absent.  None.lower() raises
\* AttributeError; every exception is caught and answered False.  The UPDATE
\* writes a value of status_mapping, so the CHECK cannot fail.
update_cheque_status_from_bank_api(cheque_id, resp) ==
    LET rows == {c \in cheques : c.id = cheque_id /\ c.branch_id \in BranchIds}
        found == rows # {}
        bank_code == banks[branches[(CHOOSE c \in rows : TRUE).branch_id].bank_id].code
        called == found /\ has_bank_api(bank_code)
        answered == called /\ ~resp.raises /\ resp.code = 200 /\ resp.status # NoStatus
        new_status == map_bank_status_to_internal(resp.status)
        updates == answered /\ new_status # NoMapping
    IN /\ cheques' = IF updates THEN update_status_rows(cheque_id, new_status) ELSE cheques
       /\ ret' = [op |-> "update_cheque_status_from_bank_api", outcome |-> "ok",
                  value |-> updates, id |-> cheque_id, resp |-> resp]
       /\ UNCHANGED <<banks, branches, clients, users, notifications, user_sessions,
                      nextChequeId, nextClientId, nextNotifId, today, now, sent, runs,
                      api_enabled, backup, import_job,
                   reminder_threads,
                   audit_log, login_attempts,
                   saved_searches, saved_searches_table,
                   auto_refresh, last_update, after_callbacks>>

-----------------------------------------------------------------------------
(* SmartAutomation.send_automated_reminders, NotificationsDialog *)

\* The rows of the SELECT of send_automated_reminders: cheques en_attente or
\* depose, due from today to today + 3 days, whose client row exists
due_cheques ==
    {c \in cheques :
        /\ c.status \in {"en_attente", "depose"}
        /\ c.due_date >= today /\ c.due_date <= today + 3
        /\ \E cl \in clients : cl.id = c.client_id}

\* _reminder_already_sent_today(cheque_id): a payment_reminder notification of
\* the cheque created today
reminder_already_sent_today(cheque_id) ==
    \E n \in notifications :
        /\ n.cheque_id = cheque_id
        /\ n.type = "payment_reminder"
        /\ n.day = today

\* Whether a gateway is tried for the cheque: "phone and _is_valid_phone(phone)"
\* or "email and _is_valid_email(email)"
has_channel(c) ==
    \E cl \in clients : cl.id = c.client_id /\ (cl.phone_ok \/ cl.email_ok)

\* The row _log_reminder_sent inserts for cheque c, the k-th of the run; it
\* has no user_id
ReminderNotification(c, todo) ==
    [id |-> nextNotifId + Cardinality({d \in todo : d.id < c.id}),
     type |-> "payment_reminder", cheque_id |-> c.id,
     user_id |-> NULL, read |-> FALSE, day |-> today]

\* One run of send_automated_reminders.  For each due cheque without a
\* reminder logged today the gateways are tried (_send_sms_reminder and
\* _send_email_reminder succeed or answer False) and the reminder is logged
\* whether or not a message went out.
send_automated_reminders ==
    LET todo == {c \in due_cheques : ~reminder_already_sent_today(c.id)}
    IN /\ runs < MaxRuns
       /\ nextNotifId + Cardinality(todo) - 1 <= MaxNotifs
       /\ \E delivered \in SUBSET {c.id : c \in {d \in todo : has_channel(d)}} :
             /\ sent' = sent \cup {[cheque_id |-> id, day |-> today, run |-> runs + 1] :
                                     id \in delivered}
             /\ ret' = [op |-> "send_automated_reminders", outcome |-> "ok",
                        sent |-> Cardinality(delivered),
                        total_cheques |-> Cardinality(due_cheques)]
       /\ notifications' = notifications \cup {ReminderNotification(c, todo) : c \in todo}
       /\ nextNotifId' = nextNotifId + Cardinality(todo)
       /\ runs' = runs + 1
       /\ UNCHANGED <<banks, branches, clients, cheques, users, user_sessions,
                      nextChequeId, nextClientId, today, now, api_enabled, backup, import_job,
                   reminder_threads,
                   audit_log, login_attempts,
                   saved_searches, saved_searches_table,
                   auto_refresh, last_update, after_callbacks>>

\* get_notifications(user_id): the user's rows and the rows without a user
get_notifications(user_id) ==
    {n \in notifications : n.user_id = user_id \/ n.user_id = NULL}

\* NotificationsDialog.clear_all, confirmed
clear_all ==
    /\ notifications' = {n \in notifications :
                            ~(n.user_id = CurrentUser \/ n.user_id = NULL)}
    /\ ret' = [op |-> "clear_all", outcome |-> "ok"]
    /\ UNCHANGED <<banks, branches, clients, cheques, users, user_sessions, nextChequeId,
                   nextClientId, nextNotifId, today, now, sent, runs, api_enabled, backup, import_job,
                   reminder_threads,
                   audit_log, login_attempts,
                   saved_searches, saved_searches_table,
                   auto_refresh, last_update, after_callbacks>>

\* NotificationsDialog.delete_selected on the row n of the loaded list
delete_selected_notification(n) ==
    /\ n \in get_notifications(CurrentUser)
    /\ notifications' = {m \in notifications : m.id # n.id}
    /\ ret' = [op |-> "delete_selected_notification", outcome |-> "ok", id |-> n.id]
    /\ UNCHANGED <<banks, branches, clients, cheques, users, user_sessions, nextChequeId,
                   nextClientId, nextNotifId, today, now, sent, runs, api_enabled, backup, import_job,
                   reminder_threads,
                   audit_log, login_attempts,
                   saved_searches, saved_searches_table,
                   auto_refresh, last_update, after_callbacks>>

\* Midnight: date('now') moves to the next day
next_day ==
    /\ today < MaxDay
    /\ today' = today + 1
    /\ ret' = [op |-> "next_day", outcome |-> "ok"]
    /\ UNCHANGED <<banks, branches, clients, cheques, users, notifications, user_sessions,
                   nextChequeId, nextClientId, nextNotifId, now, sent, runs, api_enabled, backup, import_job,
                   reminder_threads,
                   audit_log, login_attempts,
                   saved_searches, saved_searches_table,
                   auto_refresh, last_update, after_callbacks>>

-----------------------------------------------------------------------------
(* send_automated_reminders statement by statement, for runs on two threads *)

\* The Tk main loop ("ui": check_notifications) and the thread run_async_task
\* starts ("bg": AutomationDialog._send_all_reminders)
Threads == {"ui", "bg"}

\* No send_automated_reminders call in progress on the thread
ReminderIdle == [pc |-> "idle", pending |-> {}, cheque |-> NULL, run |-> 0]

\* The SELECT at the head of send_automated_reminders: the thread holds the
\* rows it fetched
reminders_select(t) ==
    /\ reminder_threads[t].pc = "idle"
    /\ runs < MaxRuns
    /\ runs' = runs + 1
    /\ reminder_threads' = [reminder_threads EXCEPT ![t] =
            [pc |-> "loop", pending |-> {c.id : c \in due_cheques},
             cheque |-> NULL, run |-> runs + 1]]
    /\ ret' = [op |-> "reminders_select", outcome |-> "ok", thread |-> t]
    /\ UNCHANGED <<banks, branches, clients, cheques, users, notifications, user_sessions,
                   nextChequeId, nextClientId, nextNotifId, today, now, sent,
                   api_enabled, backup, import_job,
                   audit_log, login_attempts,
                   saved_searches, saved_searches_table,
                   auto_refresh, last_update, after_callbacks>>

\* "if self._reminder_already_sent_today(cheque_id): continue" for the next
\* fetched row, on a connection of its own
reminders_check(t) ==
    /\ reminder_threads[t].pc = "loop"
    /\ \E id \in reminder_threads[t].pending :
          /\ reminder_threads' = [reminder_threads EXCEPT ![t] =
                IF reminder_already_sent_today(id)
                THEN [@ EXCEPT !.pending = @ \ {id}]
                ELSE [@ EXCEPT !.pc = "send", !.cheque = id]]
          /\ ret' = [op |-> "reminders_check", outcome |-> "ok", thread |-> t,
                     id |-> id, value |-> reminder_already_sent_today(id)]
    /\ UNCHANGED <<banks, branches, clients, cheques, users, notifications, user_sessions,
                   nextChequeId, nextClientId, nextNotifId, today, now, sent, runs,
                   api_enabled, backup, import_job,
                   audit_log, login_attempts,
                   saved_searches, saved_searches_table,
                   auto_refresh, last_update, after_callbacks>>

\* _send_sms_reminder / _send_email_reminder for the row in hand: tried when
\* the client has a valid phone or email, and the gateway succeeds or not
reminders_send(t) ==
    /\ reminder_threads[t].pc = "send"
    /\ \E delivered \in BOOLEAN :
          /\ delivered => \E c \in cheques :
                             c.id = reminder_threads[t].cheque /\ has_channel(c)
          /\ sent' = IF delivered
                     THEN sent \cup {[cheque_id |-> reminder_threads[t].cheque,
                                      day |-> today, run |-> reminder_threads[t].run]}
                     ELSE sent
          /\ ret' = [op |-> "reminders_send", outcome |-> "ok", thread |-> t,
                     id |-> reminder_threads[t].cheque, value |-> delivered]
    /\ reminder_threads' = [reminder_threads EXCEPT ![t].pc = "log"]
    /\ UNCHANGED <<banks, branches, clients, cheques, users, notifications, user_sessions,
                   nextChequeId, nextClientId, nextNotifId, today, now, runs,
                   api_enabled, backup, import_job,
                   audit_log, login_attempts,
                   saved_searches, saved_searches_table,
                   auto_refresh, last_update, after_callbacks>>

\* _log_reminder_sent for the row in hand, on a connection of its own
reminders_log(t) ==
    /\ reminder_threads[t].pc = "log"
    /\ nextNotifId <= MaxNotifs
    /\ notifications' = notifications \cup
            {[id |-> nextNotifId, type |-> "payment_reminder",
              cheque_id |-> reminder_threads[t].cheque,
              user_id |-> NULL, read |-> FALSE, day |-> today]}
    /\ nextNotifId' = nextNotifId + 1
    /\ reminder_threads' = [reminder_threads EXCEPT ![t] =
            [@ EXCEPT !.pc = "loop", !.pending = @ \ {reminder_threads[t].cheque},
                      !.cheque = NULL]]
    /\ ret' = [op |-> "reminders_log", outcome |-> "ok", thread |-> t,
               id |-> reminder_threads[t].cheque]
    /\ UNCHANGED <<banks, branches, clients, cheques, users, user_sessions,
                   nextChequeId, nextClientId, today, now, sent, runs,
                   api_enabled, backup, import_job,
                   audit_log, login_attempts,
                   saved_searches, saved_searches_table,
                   auto_refresh, last_update, after_callbacks>>

\* The return of send_automated_reminders once every fetched row is done
reminders_return(t) ==
    /\ reminder_threads[t].pc = "loop"
    /\ reminder_threads[t].pending = {}
    /\ reminder_threads' = [reminder_threads EXCEPT ![t] = ReminderIdle]
    /\ ret' = [op |-> "reminders_return", outcome |-> "ok", thread |-> t]
    /\ UNCHANGED <<banks, branches, clients, cheques, users, notifications, user_sessions,
                   nextChequeId, nextClientId, nextNotifId, today, now, sent, runs,
                   api_enabled, backup, import_job,
                   audit_log, login_attempts,
                   saved_searches, saved_searches_table,
                   auto_refresh, last_update, after_callbacks>>

-----------------------------------------------------------------------------
(* DatabaseManager.create_due_notifications *)

\* get_cheques_due_soon(): cheques en_attente or depose due from today to
\* today + 3 days; one row per cheque
get_cheques_due_soon ==
    {c \in cheques :
        /\ c.status \in {"en_attente", "depose"}
        /\ c.due_date >= today /\ c.due_date <= today + 3}

\* "SELECT COUNT(*) FROM notifications WHERE type = 'due_soon' AND
\* cheque_id = ? AND date(created_at) = date('now')" is not 0
due_notification_exists(cheque_id) ==
    \E n \in notifications :
        /\ n.type = "due_soon"
        /\ n.cheque_id = cheque_id
        /\ n.day = today

\* The row create_due_notifications inserts for cheque c, among the cheques
\* todo of the run; it has no user_id
DueNotification(c, todo) ==
    [id |-> nextNotifId + Cardinality({d \in todo : d.id < c.id}),
     type |-> "due_soon", cheque_id |-> c.id,
     user_id |-> NULL, read |-> FALSE, day |-> today]

\* create_due_notifications without the SELECT COUNT(*) test
create_due_notifications_unchecked ==
    LET todo == get_cheques_due_soon
    IN /\ nextNotifId + Cardinality(todo) - 1 <= MaxNotifs
       /\ notifications' = notifications \cup {DueNotification(c, todo) : c \in todo}
       /\ nextNotifId' = nextNotifId + Cardinality(todo)
       /\ ret' = [op |-> "create_due_notifications", outcome |-> "ok",
                  added |-> Cardinality(todo)]
       /\ UNCHANGED <<banks, branches, clients, cheques, users, user_sessions,
                      nextChequeId, nextClientId, today, now, sent, runs,
                      api_enabled, backup, import_job, reminder_threads,
                   audit_log, login_attempts,
                   saved_searches, saved_searches_table,
                   auto_refresh, last_update, after_callbacks>>

\* One run of create_due_notifications: for every cheque due soon that has no
\* due_soon notification created today, one is inserted; one commit at the end
create_due_notifications ==
    LET todo == {c \in get_cheques_due_soon : ~due_notification_exists(c.id)}
    IN /\ nextNotifId + Cardinality(todo) - 1 <= MaxNotifs
       /\ notifications' = notifications \cup {DueNotification(c, todo) : c \in todo}
       /\ nextNotifId' = nextNotifId + Cardinality(todo)
       /\ ret' = [op |-> "create_due_notifications", outcome |-> "ok",
                  added |-> Cardinality(todo)]
       /\ UNCHANGED <<banks, branches, clients, cheques, users, user_sessions,
                      nextChequeId, nextClientId, today, now, sent, runs,
                      api_enabled, backup, import_job, reminder_threads,
                   audit_log, login_attempts,
                   saved_searches, saved_searches_table,
                   auto_refresh, last_update, after_callbacks>>

-----------------------------------------------------------------------------
(* NotificationsDialog: the filtered tree and the actions on its rows *)

\* The values of filter_var
Filters == {"all", "unread", "due_soon"}

\* self.notifications after load_notifications: the rows of
\* get_notifications(user) ORDER BY created_at DESC, rows of one day in any
\* order.  Every handler of the dialog ends with load_notifications, so the
\* list a handler works on is the one loaded from the tables as they are.
loaded_notifications(user_id) ==
    LET rows == get_notifications(user_id)
    IN {list \in [1..Cardinality(rows) -> rows] :
            /\ \A i \in DOMAIN list : \A j \in DOMAIN list :
                  (i < j) => (list[i] # list[j] /\ list[i].day >= list[j].day)}

\* The test of apply_filter on one notification
passes_filter(filter_type, notif) ==
    \/ filter_type = "all"
    \/ filter_type = "unread" /\ ~notif.read
    \/ filter_type = "due_soon" /\ notif.type = "due_soon"

\* filtered_notifications of apply_filter: the rows the tree shows, in order
RECURSIVE apply_filter(_, _)
apply_filter(filter_type, list) ==
    IF list = <<>> THEN <<>>
    ELSE IF passes_filter(filter_type, Head(list))
         THEN <<Head(list)>> \o apply_filter(filter_type, Tail(list))
         ELSE apply_filter(filter_type, Tail(list))

\* "item_index = self.tree.index(selection[0]); notif =
\* self.notifications[item_index]": the position of the selected row in the
\* tree indexes the unfiltered list (item_index counts from 1 here)
selected_notification(list, filter_type, item_index) ==
    list[item_index]

\* mark_notification_read(notification_id), reached from on_double_click and
\* from mark_selected_read, reported under the name op
mark_row_read(filter_type, item_index, op) ==
    \E list \in loaded_notifications(CurrentUser) :
        /\ item_index \in 1..Len(apply_filter(filter_type, list))
        /\ LET notif == selected_notification(list, filter_type, item_index)
           IN /\ notifications' = {IF n.id = notif.id THEN [n EXCEPT !.read = TRUE] ELSE n :
                                      n \in notifications}
              /\ ret' = [op |-> op, outcome |-> "ok", filter |-> filter_type,
                         shown |-> apply_filter(filter_type, list)[item_index].id,
                         id |-> notif.id]
        /\ UNCHANGED <<banks, branches, clients, cheques, users, user_sessions, nextChequeId,
                       nextClientId, nextNotifId, today, now, sent, runs, api_enabled,
                       backup, import_job, reminder_threads,
                   audit_log, login_attempts,
                   saved_searches, saved_searches_table,
                   auto_refresh, last_update, after_callbacks>>

\* NotificationsDialog.on_double_click on the row item_index of the tree
on_double_click(filter_type, item_index) ==
    mark_row_read(filter_type, item_index, "on_double_click")

\* NotificationsDialog.mark_selected_read on the row item_index of the tree
mark_selected_read(filter_type, item_index) ==
    mark_row_read(filter_type, item_index, "mark_selected_read")

\* NotificationsDialog.delete_selected on the row item_index of the tree,
\* confirmed
delete_selected(filter_type, item_index) ==
    \E list \in loaded_notifications(CurrentUser) :
        /\ item_index \in 1..Len(apply_filter(filter_type, list))
        /\ LET notif == selected_notification(list, filter_type, item_index)
           IN /\ notifications' = {n \in notifications : n.id # notif.id}
              /\ ret' = [op |-> "delete_selected", outcome |-> "ok", filter |-> filter_type,
                         shown |-> apply_filter(filter_type, list)[item_index].id,
                         id |-> notif.id]
        /\ UNCHANGED <<banks, branches, clients, cheques, users, user_sessions, nextChequeId,
                       nextClientId, nextNotifId, today, now, sent, runs, api_enabled,
                       backup, import_job, reminder_threads,
                   audit_log, login_attempts,
                   saved_searches, saved_searches_table,
                   auto_refresh, last_update, after_callbacks>>

\* NotificationsDialog.mark_all_read, confirmed
mark_all_read ==
    /\ notifications' = {IF n.user_id = CurrentUser \/ n.user_id = NULL
                         THEN [n EXCEPT !.read = TRUE] ELSE n : n \in notifications}
    /\ ret' = [op |-> "mark_all_read", outcome |-> "ok"]
    /\ UNCHANGED <<banks, branches, clients, cheques, users, user_sessions, nextChequeId,
                   nextClientId, nextNotifId, today, now, sent, runs, api_enabled,
                   backup, import_job, reminder_threads,
                   audit_log, login_attempts,
                   saved_searches, saved_searches_table,
                   auto_refresh, last_update, after_callbacks>>

-----------------------------------------------------------------------------
(* SecurityManager sessions *)

\* self.session_timeout, in seconds
session_timeout == 3600

\* Values a caller passes as session_token and user_id; NoSuchUser is an id
\* without a row in users (user_sessions.user_id declares no foreign key)
SessionTokens == {"t1", "t2"}
NoSuchUser == 3

\* create_user_session with INSERT OR REPLACE in place of INSERT
create_or_replace_session(user_id, session_token) ==
    /\ user_sessions' = {s \in user_sessions : s.session_token # session_token}
                        \cup {[session_token |-> session_token, user_id |-> user_id,
                               expires_at |-> now + session_timeout, is_active |-> TRUE]}
    /\ ret' = [op |-> "create_user_session", outcome |-> "ok", value |-> "True",
               token |-> session_token]
    /\ UNCHANGED <<banks, branches, clients, cheques, users, notifications, nextChequeId,
                   nextClientId, nextNotifId, today, now, sent, runs, api_enabled, backup, import_job,
                   reminder_threads,
                   audit_log, login_attempts,
                   saved_searches, saved_searches_table,
                   auto_refresh, last_update, after_callbacks>>

\* create_user_session(user_id, session_token): the INSERT raises
\* IntegrityError on a token already in the table (session_token UNIQUE); the
\* exception is caught and False returned
create_user_session(user_id, session_token) ==
    LET taken == \E s \in user_sessions : s.session_token = session_token
    IN /\ user_sessions' =
             IF taken THEN user_sessions
             ELSE user_sessions \cup {[session_token |-> session_token, user_id |-> user_id,
                                       expires_at |-> now + session_timeout,
                                       is_active |-> TRUE]}
       /\ ret' = [op |-> "create_user_session", outcome |-> "ok",
                  value |-> IF taken THEN "False" ELSE "True", token |-> session_token]
       /\ UNCHANGED <<banks, branches, clients, cheques, users, notifications, nextChequeId,
                      nextClientId, nextNotifId, today, now, sent, runs, api_enabled, backup, import_job,
                   reminder_threads,
                   audit_log, login_attempts,
                   saved_searches, saved_searches_table,
                   auto_refresh, last_update, after_callbacks>>

\* validate_session(session_token): the active row of the token joined with
\* its user; None without such a row; an expired row is deactivated and None
\* returned; otherwise the user's data
validate_session(session_token) ==
    LET found == {s \in user_sessions :
                     /\ s.session_token = session_token
                     /\ s.is_active
                     /\ s.user_id \in DOMAIN users}
        expired == \E s \in found : now > s.expires_at
    IN /\ user_sessions' =
             IF expired
             THEN {IF s.session_token = session_token
                   THEN [s EXCEPT !.is_active = FALSE] ELSE s : s \in user_sessions}
             ELSE user_sessions
       /\ ret' = [op |-> "validate_session", outcome |-> "ok",
                  value |-> IF found # {} /\ ~expired THEN "data" ELSE "None",
                  token |-> session_token]
       /\ UNCHANGED <<banks, branches, clients, cheques, users, notifications, nextChequeId,
                      nextClientId, nextNotifId, today, now, sent, runs, api_enabled, backup, import_job,
                   reminder_threads,
                   audit_log, login_attempts,
                   saved_searches, saved_searches_table,
                   auto_refresh, last_update, after_callbacks>>

\* invalidate_session(session_token): returns rowcount > 0
invalidate_session(session_token) ==
    /\ user_sessions' = {IF s.session_token = session_token
                         THEN [s EXCEPT !.is_active = FALSE] ELSE s : s \in user_sessions}
    /\ ret' = [op |-> "invalidate_session", outcome |-> "ok",
               value |-> IF \E s \in user_sessions : s.session_token = session_token
                         THEN "True" ELSE "False",
               token |-> session_token]
    /\ UNCHANGED <<banks, branches, clients, cheques, users, notifications, nextChequeId,
                   nextClientId, nextNotifId, today, now, sent, runs, api_enabled, backup, import_job,
                   reminder_threads,
                   audit_log, login_attempts,
                   saved_searches, saved_searches_table,
                   auto_refresh, last_update, after_callbacks>>

\* cleanup_expired_sessions
cleanup_expired_sessions ==
    /\ user_sessions' = {IF s.expires_at < now /\ s.is_active
                         THEN [s EXCEPT !.is_active = FALSE] ELSE s : s \in user_sessions}
    /\ ret' = [op |-> "cleanup_expired_sessions", outcome |-> "ok"]
    /\ UNCHANGED <<banks, branches, clients, cheques, users, notifications, nextChequeId,
                   nextClientId, nextNotifId, today, now, sent, runs, api_enabled, backup, import_job,
                   reminder_threads,
                   audit_log, login_attempts,
                   saved_searches, saved_searches_table,
                   auto_refresh, last_update, after_callbacks>>

\* datetime.now() moves on by d seconds
tick(d) ==
    /\ now + d <= MaxNow
    /\ now' = now + d
    /\ ret' = [op |-> "tick", outcome |-> "ok"]
    /\ UNCHANGED <<banks, branches, clients, cheques, users, notifications, user_sessions,
                   nextChequeId, nextClientId, nextNotifId, today, sent, runs, api_enabled,
                   backup, import_job,
                   reminder_threads,
                   audit_log, login_attempts,
                   saved_searches, saved_searches_table,
                   auto_refresh, last_update, after_callbacks>>

-----------------------------------------------------------------------------
(* LoginDialog.login, SecurityManager.log_audit_event, check_login_attempts *)

\* security.max_login_attempts and security.lockout_duration (seconds)
max_login_attempts == 5
lockout_duration == 900

\* LoginDialog.login with the username of user_id and a password that is the
\* user's or not: the SELECT wants the username, the password hash and
\* active = TRUE.  Nothing is written to audit_log and check_login_attempts
\* is not consulted.
login(user_id, password_ok) ==
    LET found == /\ user_id \in DOMAIN users
                 /\ password_ok
                 /\ users[user_id].active
    IN /\ Cardinality(login_attempts) < MaxLogins
       /\ login_attempts' = login_attempts \cup
              {[n |-> Cardinality(login_attempts) + 1, username |-> user_id,
                success |-> found, at |-> now]}
       /\ ret' = [op |-> "login", outcome |-> "ok", username |-> user_id,
                  password_ok |-> password_ok, value |-> found]
       /\ UNCHANGED <<banks, branches, clients, cheques, users, notifications, user_sessions,
                      nextChequeId, nextClientId, nextNotifId, today, now, sent, runs,
                      api_enabled, backup, import_job, reminder_threads, audit_log,
                      saved_searches, saved_searches_table,
                   auto_refresh, last_update, after_callbacks>>

\* log_audit_event(user_id, username, AuditAction.LOGIN, success = ...): one
\* row, timestamp DEFAULT CURRENT_TIMESTAMP ("YYYY-MM-DD HH:MM:SS")
log_audit_event(user_id, success) ==
    /\ Cardinality(audit_log) < MaxLogins
    /\ audit_log' = audit_log \cup
            {[id |-> Cardinality(audit_log) + 1, username |-> user_id,
              action |-> "login", success |-> success, day |-> today]}
    /\ ret' = [op |-> "log_audit_event", outcome |-> "ok", username |-> user_id]
    /\ UNCHANGED <<banks, branches, clients, cheques, users, notifications, user_sessions,
                   nextChequeId, nextClientId, nextNotifId, today, now, sent, runs,
                   api_enabled, backup, import_job, reminder_threads, login_attempts,
                   saved_searches, saved_searches_table,
                   auto_refresh, last_update, after_callbacks>>

\* "timestamp > ?" with lockout_start.isoformat() ("YYYY-MM-DDTHH:MM:SS.ffffff")
\* compares two texts: on equal dates the blank of the stored timestamp sorts
\* before the "T" of the parameter, so a row is later than lockout_start
\* exactly when its date is later than the date of lockout_start
later_than(row, start_day) == row.day > start_day

\* The rows check_login_attempts counts
failed_attempts(user_id, start_day) ==
    Cardinality({row \in audit_log :
                    /\ row.username = user_id
                    /\ row.action = "login"
                    /\ ~row.success
                    /\ later_than(row, start_day)})

\* check_login_attempts(username); start_day is the date of lockout_start =
\* datetime.now() - lockout_duration: today, or the day before when the call
\* comes less than lockout_duration after midnight
check_login_attempts(user_id, start_day) ==
    /\ ret' = [op |-> "check_login_attempts", outcome |-> "ok", username |-> user_id,
               is_locked |-> failed_attempts(user_id, start_day) >= max_login_attempts,
               remaining_attempts |->
                   Max(0, max_login_attempts - failed_attempts(user_id, start_day))]
    /\ UNCHANGED <<banks, branches, clients, cheques, users, notifications, user_sessions,
                   nextChequeId, nextClientId, nextNotifId, today, now, sent, runs,
                   api_enabled, backup, import_job, reminder_threads, audit_log,
                   login_attempts,
                   saved_searches, saved_searches_table,
                   auto_refresh, last_update, after_callbacks>>

-----------------------------------------------------------------------------
(* AdvancedSearchFrame: saved searches *)

\* json.dumps(filters_data): a text that stands for the list; it is never
\* empty ("[]" for no filter)
json_dumps(filters) == [text |-> filters]

\* "if row[3]" on what json_dumps wrote
is_truthy(text) == TRUE

\* json.loads in load_saved_searches: the module imports json only inside
\* persist_saved_searches, so the name is unbound here and NameError is raised
json_loads_raises == TRUE

\* json.loads on a text json.dumps wrote
json_loads(text) == text.text

\* Whether the names of a list are all different (name TEXT UNIQUE)
unique_names(list) ==
    \A i \in DOMAIN list : \A j \in DOMAIN list : list[i].name = list[j].name => i = j

\* The table after persist_saved_searches on the list: DELETE FROM
\* saved_searches and one INSERT per search, in one transaction; a second
\* INSERT of a name raises IntegrityError, the transaction is rolled back and
\* the exception printed
persist_saved_searches(list) ==
    IF unique_names(list)
    THEN [i \in DOMAIN list |->
             [name |-> list[i].name, query |-> list[i].query,
              filters |-> json_dumps(list[i].filters)]]
    ELSE saved_searches_table

\* The rows load_saved_searches turns into a SavedSearch, in the order of the
\* SELECT (no search has last_used set: rowid order); a row whose conversion
\* raises is printed and skipped
RECURSIVE loaded_searches(_)
loaded_searches(rows) ==
    IF rows = <<>> THEN <<>>
    ELSE LET row == Head(rows)
             raises == is_truthy(row.filters) /\ json_loads_raises
             search == [name |-> row.name, query |-> row.query,
                        filters |-> IF is_truthy(row.filters)
                                    THEN json_loads(row.filters) ELSE <<>>]
         IN (IF raises THEN <<>> ELSE <<search>>) \o loaded_searches(Tail(rows))

\* save_search(saved_search), the callback of SaveSearchDialog
save_search(saved_search) ==
    /\ Len(saved_searches) < MaxSearches
    /\ saved_searches' = Append(saved_searches, saved_search)
    /\ saved_searches_table' = persist_saved_searches(Append(saved_searches, saved_search))
    /\ ret' = [op |-> "save_search", outcome |-> "ok", name |-> saved_search.name]
    /\ UNCHANGED <<banks, branches, clients, cheques, users, notifications, user_sessions,
                   nextChequeId, nextClientId, nextNotifId, today, now, sent, runs,
                   api_enabled, backup, import_job, reminder_threads, audit_log,
                   login_attempts,
                   auto_refresh, last_update, after_callbacks>>

\* delete_saved_search with the name selected in the combobox
delete_saved_search(selection) ==
    LET kept == SelectSeq(saved_searches, LAMBDA search : search.name # selection)
    IN /\ \E i \in DOMAIN saved_searches : saved_searches[i].name = selection
       /\ saved_searches' = kept
       /\ saved_searches_table' = persist_saved_searches(kept)
       /\ ret' = [op |-> "delete_saved_search", outcome |-> "ok", name |-> selection]
       /\ UNCHANGED <<banks, branches, clients, cheques, users, notifications, user_sessions,
                      nextChequeId, nextClientId, nextNotifId, today, now, sent, runs,
                      api_enabled, backup, import_job, reminder_threads, audit_log,
                      login_attempts,
                   auto_refresh, last_update, after_callbacks>>

\* A search frame is created anew: saved_searches = [] and load_saved_searches
load_saved_searches ==
    /\ saved_searches' = loaded_searches(saved_searches_table)
    /\ ret' = [op |-> "load_saved_searches", outcome |-> "ok",
               loaded |-> Len(loaded_searches(saved_searches_table))]
    /\ UNCHANGED <<banks, branches, clients, cheques, users, notifications, user_sessions,
                   nextChequeId, nextClientId, nextNotifId, today, now, sent, runs,
                   api_enabled, backup, import_job, reminder_threads, audit_log,
                   login_attempts, saved_searches_table,
                   auto_refresh, last_update, after_callbacks>>

-----------------------------------------------------------------------------
(* SettingsFrame.create_backup, restore_backup *)

\* The content of the database file
database_file ==
    [banks |-> banks, branches |-> branches, clients |-> clients, cheques |-> cheques,
     users |-> users, notifications |-> notifications, user_sessions |-> user_sessions,
     nextChequeId |-> nextChequeId, nextClientId |-> nextClientId,
     nextNotifId |-> nextNotifId, audit_log |-> audit_log,
     saved_searches_table |-> saved_searches_table]

\* create_backup with a path chosen: backup_database copies the database file
create_backup ==
    /\ backup' = {database_file}
    /\ ret' = [op |-> "create_backup", outcome |-> "ok"]
    /\ UNCHANGED <<banks, branches, clients, cheques, users, notifications, user_sessions,
                   nextChequeId, nextClientId, nextNotifId, today, now, sent, runs,
                   api_enabled, import_job,
                   reminder_threads,
                   audit_log, login_attempts,
                   saved_searches, saved_searches_table,
                   auto_refresh, last_update, after_callbacks>>

\* restore_backup with a backup file chosen and the question confirmed:
\* shutil.copy2 puts the copy in the place of the database file
restore_backup ==
    \E file \in backup :
        /\ banks' = file.banks
        /\ branches' = file.branches
        /\ clients' = file.clients
        /\ cheques' = file.cheques
        /\ users' = file.users
        /\ notifications' = file.notifications
        /\ user_sessions' = file.user_sessions
        /\ nextChequeId' = file.nextChequeId
        /\ nextClientId' = file.nextClientId
        /\ nextNotifId' = file.nextNotifId
        /\ audit_log' = file.audit_log
        /\ saved_searches_table' = file.saved_searches_table
        /\ ret' = [op |-> "restore_backup", outcome |-> "ok"]
        /\ UNCHANGED <<today, now, sent, runs, api_enabled, backup, import_job,
                       reminder_threads, login_attempts, saved_searches,
                   auto_refresh, last_update, after_callbacks>>

-----------------------------------------------------------------------------
(* Exception handling of the public methods *)

\* The public methods (no leading underscore) of the four classes
DatabaseManagerMethods ==
    {"init_database", "get_banks", "add_bank", "update_bank", "delete_bank",
     "get_branches", "add_branch", "get_clients", "add_client", "search_clients",
     "add_cheque", "get_cheques", "update_cheque_status", "check_duplicate_cheque",
     "get_cheques_due_soon", "get_dashboard_stats", "create_due_notifications",
     "get_notifications", "get_setting", "set_setting", "backup_database"}

AdvancedAnalyticsMethods ==
    {"get_cheque_aging_analysis", "get_seasonal_trends", "calculate_client_risk_profiles",
     "get_performance_metrics", "predict_cash_flow", "get_duplicate_detection_analysis"}

SmartAutomationMethods ==
    {"update_cheque_status_from_bank_api", "send_automated_reminders",
     "calculate_ai_risk_score", "detect_advanced_duplicates", "bulk_import_cheques"}

SecurityManagerMethods ==
    {"encrypt_sensitive_data", "decrypt_sensitive_data", "hash_password", "verify_password",
     "validate_password_policy", "check_user_permissions", "log_audit_event",
     "get_audit_log", "check_login_attempts", "generate_session_token",
     "create_user_session", "validate_session", "invalidate_session",
     "cleanup_expired_sessions", "get_security_report", "backup_audit_log",
     "check_gdpr_compliance", "sanitize_input", "validate_file_upload"}

PublicMethods ==
    DatabaseManagerMethods \cup AdvancedAnalyticsMethods \cup SmartAutomationMethods
        \cup SecurityManagerMethods

\* What the body of a method raises: nothing, or an exception of one of these
\* kinds (ValueError is a subclass of Exception that one handler names)
NoError == "none"
Errors == {"sqlite3.Error", "ValueError", "Exception"}

\* Methods whose body is "try: ... except Exception as e: log; return default"
CatchAllMethods ==
    {"backup_database"} \cup AdvancedAnalyticsMethods \cup SmartAutomationMethods
        \cup {"verify_password", "log_audit_event", "get_audit_log", "check_login_attempts",
              "create_user_session", "validate_session", "invalidate_session",
              "cleanup_expired_sessions", "get_security_report", "backup_audit_log",
              "validate_file_upload"}

\* Methods whose handler logs and ends with "raise"
ReraisingMethods == {"init_database", "encrypt_sensitive_data", "decrypt_sensitive_data"}

\* Methods whose only handler is "except ValueError"
ValueErrorMethods == {"check_user_permissions"}

\* Every method with "except Exception: return default"
catches_everything(method, error) == TRUE

\* Whether the method's handler ends the exception and returns the default.
\* The methods in none of the three sets have no try statement.
catches(method, error) ==
    \/ method \in CatchAllMethods
    \/ method \in ValueErrorMethods /\ error = "ValueError"

\* One call of a public method whose body raises error (or nothing)
call(method, error) ==
    /\ ret' = [op |-> method, raised |-> error,
               outcome |-> IF error = NoError THEN "ok"
                           ELSE IF catches(method, error) THEN "default"
                           ELSE error]
    /\ UNCHANGED <<banks, branches, clients, cheques, users, notifications, user_sessions,
                   nextChequeId, nextClientId, nextNotifId, today, now, sent, runs,
                   api_enabled, backup, import_job,
                   reminder_threads,
                   audit_log, login_attempts,
                   saved_searches, saved_searches_table,
                   auto_refresh, last_update, after_callbacks>>

-----------------------------------------------------------------------------
(* EnhancedDashboardFrame: the auto-refresh check box and the callbacks of   *)
(* self.after                                                               *)

\* self.refresh_interval, in seconds
refresh_interval == 30

\* refresh_dashboard_data: the widgets are rebuilt from what the database
\* holds (every exception is caught) and last_update = datetime.now()
refresh_dashboard_data == now

\* self.after(self.refresh_interval * 1000, self.start_real_time_updates): Tk
\* holds one more callback, due refresh_interval seconds from now
after(callbacks, ms) == Append(callbacks, now + ms \div 1000)

\* The body of start_real_time_updates with the check box at value checked and
\* callbacks held by Tk: refresh and schedule itself when the box is checked,
\* nothing otherwise
start_real_time_updates(checked, callbacks) ==
    /\ checked => Len(callbacks) < MaxCallbacks
    /\ last_update' = IF checked THEN refresh_dashboard_data ELSE last_update
    /\ after_callbacks' = IF checked THEN after(callbacks, refresh_interval * 1000)
                          ELSE callbacks

\* A click on the check box 'Auto-refresh': the Checkbutton flips its variable
\* and then runs its command, toggle_auto_refresh
toggle_auto_refresh ==
    /\ auto_refresh' = ~auto_refresh
    /\ start_real_time_updates(~auto_refresh, after_callbacks)
    /\ ret' = [op |-> "toggle_auto_refresh", outcome |-> "ok"]
    /\ UNCHANGED <<banks, branches, clients, cheques, users, notifications, user_sessions,
                   nextChequeId, nextClientId, nextNotifId, today, now, sent, runs,
                   api_enabled, backup, import_job, reminder_threads,
                   audit_log, login_attempts,
                   saved_searches, saved_searches_table>>

\* Tk runs the callback that is due first: start_real_time_updates once more
after_callback ==
    /\ after_callbacks # <<>>
    /\ Head(after_callbacks) <= now
    /\ start_real_time_updates(auto_refresh, Tail(after_callbacks))
    /\ ret' = [op |-> "start_real_time_updates", outcome |-> "ok"]
    /\ UNCHANGED auto_refresh
    /\ UNCHANGED <<banks, branches, clients, cheques, users, notifications, user_sessions,
                   nextChequeId, nextClientId, nextNotifId, today, now, sent, runs,
                   api_enabled, backup, import_job, reminder_threads,
                   audit_log, login_attempts,
                   saved_searches, saved_searches_table>>

\* The button 'Actualiser': manual_refresh
manual_refresh ==
    /\ last_update' = refresh_dashboard_data
    /\ ret' = [op |-> "manual_refresh", outcome |-> "ok"]
    /\ UNCHANGED <<auto_refresh, after_callbacks>>
    /\ UNCHANGED <<banks, branches, clients, cheques, users, notifications, user_sessions,
                   nextChequeId, nextClientId, nextNotifId, today, now, sent, runs,
                   api_enabled, backup, import_job, reminder_threads,
                   audit_log, login_attempts,
                   saved_searches, saved_searches_table>>

\* The main loop is idle: no callback of self.after is due
mainloop_idle == \A i \in 1..Len(after_callbacks) : after_callbacks[i] > now

-----------------------------------------------------------------------------
InitStore ==
    /\ banks = [b \in BankIds |-> [code |-> IF b = 1 THEN "CIH" ELSE "BP", active |-> TRUE]]
    /\ branches = [b \in BranchIds |->
                     [bank_id |-> b, name |-> IF b = 1 THEN "Centre" ELSE "Port", active |-> TRUE]]
    /\ clients = {}
    /\ cheques = {}
    /\ users = [u \in UserIds |-> [role |-> IF u = 1 THEN "admin" ELSE "agent", active |-> TRUE]]
    /\ notifications = {}
    /\ user_sessions = {}
    /\ nextChequeId = 1
    /\ nextClientId = 1
    /\ nextNotifId = 1
    /\ today = 1
    /\ now = 0
    /\ sent = {}
    /\ runs = 0
    /\ backup = {}
    /\ import_job = ImportIdle
    /\ reminder_threads = [t \in Threads |-> ReminderIdle]
    /\ audit_log = {}
    /\ login_attempts = {}
    /\ saved_searches = <<>>
    /\ saved_searches_table = <<>>
    /\ auto_refresh = TRUE
    /\ last_update = 0
    /\ after_callbacks = <<refresh_interval>>
    /\ ret = [op |-> "init", outcome |-> "ok"]

\* The state after construction with the default configuration: every
\* bank_apis.*.enabled defaults to False
Init ==
    /\ InitStore
    /\ api_enabled = {}

-----------------------------------------------------------------------------
(* The cheque store: every path that inserts a cheque, the hard delete of  *)
(* the list view and the soft deletes of the settings screen.              *)

\* cheque_data a caller hands to add_cheque
ChequeInputs ==
    [cheque_number : ChequeNumbers, branch_id : BranchIds \cup {NULL},
     client_id : {NULL}, amount : {100}, status : {"en_attente"}, due_date : {1}]

\* Contents of a validated form: the branch is an entry of the combobox, the
\* status an entry of the read-only status list
FormInputs ==
    [cheque_number : ChequeNumbers, branch_id : BranchIds, amount : Amounts,
     status : {"en_attente"}, due_date : {1},
     client_name : {"", "Ali"}, phone_ok : {TRUE}, email_ok : {FALSE}]

\* Rows of an import file that has the required columns
ImportRows ==
    [cheque_number : {"A1", ""}, amount : {100, 0},
     due_date : {1}, client_name : {"Ali"}, branch_name : {"Centre", "Port"}]

Next ==
    \/ \E data \in ChequeInputs : add_cheque(data)
    \/ \E form \in FormInputs : save_cheque(form)
    \/ \E c \in cheques : duplicate_selected(c)
    \/ \E c \in cheques : delete_selected_cheque(c)
    \/ \E row \in ImportRows : bulk_import_row(row) /\ UNCHANGED import_job

Spec == Init /\ [][Next]_vars

-----------------------------------------------------------------------------
(* Claims on the cheque store *)

\* The operations that insert a cheque
InsertOps == {"add_cheque", "save_cheque", "duplicate_selected", "bulk_import_row"}

\* No two rows share a cheque number within a non-NULL branch
UniqueNumberPerBranch ==
    \A c1 \in cheques : \A c2 \in cheques :
        (c1.id # c2.id /\ c1.branch_id # NULL /\ c1.branch_id = c2.branch_id)
            => c1.cheque_number # c2.cheque_number

\* A step that tries to insert a number its branch already holds ends in an
\* error and leaves the cheques table as it was
DuplicateInsertRejected ==
    (/\ ret'.op \in InsertOps
     /\ ret'.branch_id # NULL
     /\ \E c \in cheques : c.cheque_number = ret'.cheque_number
                           /\ c.branch_id = ret'.branch_id)
    => (/\ cheques' = cheques
        /\ ret'.outcome \notin {"ok", "imported"}
        /\ ret'.op = "add_cheque" => ret'.outcome = "IntegrityError")

\* C1: after any interleaving of the cheque-creating operations (add_cheque
\* called directly, from the form save, from the list's duplicate action or
\* from the bulk import) no two cheque rows share the same (cheque_number,
\* branch_id) with a non-NULL branch, and an insert whose number already
\* exists in the same branch fails with an error and leaves the cheques table
\* unchanged.
C1_UniqueNumberPerBranch ==
    [](UniqueNumberPerBranch) /\ [][DuplicateInsertRejected]_vars

\* C1 witness: add_cheque has just raised IntegrityError for a number that a
\* row of the same branch holds.
C1_Witness ==
    /\ ret.op = "add_cheque"
    /\ ret.outcome = "IntegrityError"
    /\ \E c \in cheques : c.cheque_number = ret.cheque_number
                          /\ c.branch_id = ret.branch_id /\ c.branch_id # NULL

\* The number exists in the table, and only in branches other than branch_id
OnlyInOtherBranch(number, branch_id) ==
    /\ \E c \in cheques : c.cheque_number = number /\ c.branch_id # NULL
    /\ \A c \in cheques : c.cheque_number = number => c.branch_id # branch_id

\* The step added one cheque row carrying this number and branch
Inserted(number, branch_id) ==
    \E c \in cheques' \ cheques : c.cheque_number = number /\ c.branch_id = branch_id

\* C2: a cheque whose number already exists only in a different branch is
\* accepted on every insertion path, add_cheque and bulk_import_cheques
\* alike, whatever its amount and client are (the row is otherwise valid: a
\* number, a positive amount, the name of an active branch).
C2_AcceptedAcrossBranches ==
    [][/\ \A data \in ChequeInputs :
             (add_cheque(data) /\ data.branch_id # NULL
              /\ OnlyInOtherBranch(data.cheque_number, data.branch_id))
             => Inserted(data.cheque_number, data.branch_id)
       /\ \A row \in ImportRows :
             (bulk_import_row(row) /\ row.cheque_number # "" /\ row.amount > 0
              /\ find_branch_id(row.branch_name) # NULL
              /\ OnlyInOtherBranch(row.cheque_number, find_branch_id(row.branch_name)))
             => Inserted(row.cheque_number, find_branch_id(row.branch_name))
      ]_vars

-----------------------------------------------------------------------------
(* Soft deletes next to the cheques they leave behind *)

NextSoft ==
    \/ \E data \in ChequeInputs : add_cheque(data)
    \/ \E b \in BankIds : delete_bank(b)
    \/ \E b \in BranchIds : delete_branch(b)
    \/ \E u \in UserIds : delete_user(u)

SpecSoft == Init /\ [][NextSoft]_vars

\* The step changed nothing of the table but the active flag of row id
OnlyFlagCleared(table, id) ==
    /\ \A x \in DOMAIN table : x # id => table'[x] = table[x]
    /\ table'[id] = [table[id] EXCEPT !.active = FALSE]

\* What a soft-delete step may change: the active flag of the row it names
SoftDeleteFrame ==
    (ret'.op \in {"delete_bank", "delete_branch", "delete_user"})
    => /\ cheques' = cheques
       /\ clients' = clients
       /\ notifications' = notifications
       /\ user_sessions' = user_sessions
       /\ IF ret'.op = "delete_bank" THEN OnlyFlagCleared(banks, ret'.id) ELSE banks' = banks
       /\ IF ret'.op = "delete_branch" THEN OnlyFlagCleared(branches, ret'.id)
          ELSE branches' = branches
       /\ IF ret'.op = "delete_user" /\ ret'.outcome = "ok" THEN OnlyFlagCleared(users, ret'.id)
          ELSE users' = users
       /\ \A bf \in BranchIds \cup {NULL} : \A kf \in BankIds \cup {NULL} :
             get_cheques(bf, kf)' = get_cheques(bf, kf)

\* Every cheque row is returned by get_cheques, unfiltered and filtered by its
\* own branch or bank, whatever the active flags of that branch and bank
ChequesStillListed ==
    \A c \in cheques :
        /\ c \in get_cheques(NULL, NULL)
        /\ c.branch_id \in BranchIds =>
              /\ c \in get_cheques(c.branch_id, NULL)
              /\ c \in get_cheques(NULL, branches[c.branch_id].bank_id)

\* C6: every soft delete of a bank, branch or user (delete_bank, the settings
\* screen's delete_branch and delete_user) only sets that row's active flag to
\* FALSE: no row of cheques or of any other table is removed or modified, and
\* the cheques of the deleted bank or branch are still returned by get_cheques.
C6_SoftDeleteKeepsCheques ==
    [](ChequesStillListed) /\ [][SoftDeleteFrame]_vars

\* C6 witness: a branch and its bank have been soft-deleted while a cheque of
\* that branch is in the table.
C6_Witness ==
    \E c \in cheques :
        /\ c.branch_id \in BranchIds
        /\ ~branches[c.branch_id].active
        /\ ~banks[branches[c.branch_id].bank_id].active
        /\ ret.op \in {"delete_bank", "delete_branch"}

-----------------------------------------------------------------------------
(* The status of a cheque: inserts with a status, status updates from the   *)
(* data layer, the list view and the bank API.                             *)

\* The configurations of bank_apis.*.enabled the model starts from
ApiConfigs == {{}, {"cih"}, {"bmce", "awb"}}

InitStatus ==
    /\ InitStore
    /\ api_enabled \in ApiConfigs

\* cheque_data with a status; "autre" is a text outside the CHECK list
StatusChequeInputs ==
    [cheque_number : {"A1"}, branch_id : BranchIds, client_id : {NULL},
     amount : {100}, status : ChequeStatuses \cup {"autre"}, due_date : {1}]

\* Values a caller passes as new_status
StatusInputs == ChequeStatuses \cup {"autre"}

\* What requests.post does
BankResponses ==
    [raises : {FALSE}, code : {200, 500},
     status : {"cleared", "CLEARED", "pending", "processing", "unknown", NoStatus}]
    \cup [raises : {TRUE}, code : {500}, status : {NoStatus}]

NextStatus ==
    \/ \E data \in StatusChequeInputs : add_cheque(data)
    \/ \E id \in 1..MaxCheques : \E st \in StatusInputs : \E u \in {NULL, CurrentUser} :
          update_cheque_status(id, st, u)
    \/ \E c \in cheques : \E st \in StatusButtons : change_status(c, st)
    \/ \E id \in 1..MaxCheques : \E resp \in BankResponses :
          update_cheque_status_from_bank_api(id, resp)

SpecStatus == InitStatus /\ [][NextStatus]_vars

\* C3: every change of a cheque's status to encaisse, rejete or annule, made by
\* update_cheque_status or by the bank-API update, adds exactly one
\* status_change notification for that cheque, and a call that leaves the
\* cheque's status as it was adds none.
TerminalStatuses == {"encaisse", "rejete", "annule"}

StatusUpdateOps ==
    {"update_cheque_status", "change_status", "update_cheque_status_from_bank_api"}

NewStatusNotifications(id) ==
    {n \in notifications' \ notifications : n.type = "status_change" /\ n.cheque_id = id}

MovedIntoTerminal(id) ==
    \E c \in cheques : \E d \in cheques' :
        /\ c.id = id /\ d.id = id
        /\ c.status # d.status
        /\ d.status \in TerminalStatuses

StatusKept(id) ==
    \A c \in cheques : \A d \in cheques' : (c.id = id /\ d.id = id) => c.status = d.status

OneNotificationPerTransition ==
    ret'.op \in StatusUpdateOps =>
        \A id \in 1..MaxCheques :
            /\ MovedIntoTerminal(id) => Cardinality(NewStatusNotifications(id)) = 1
            /\ StatusKept(id) => NewStatusNotifications(id) = {}

C3_OneNotificationPerTransition == [][OneNotificationPerTransition]_vars

\* C4: a cheque's status only advances along en_attente -> depose ->
\* {encaisse, rejete, impaye, annule}: no step moves a cheque from a later
\* stage of the lifecycle back to an earlier one.
LifecycleStage(status) ==
    CASE status = "en_attente" -> 0
      [] status = "depose" -> 1
      [] OTHER -> 2

StatusOnlyAdvances ==
    \A c \in cheques : \A d \in cheques' :
        c.id = d.id => LifecycleStage(d.status) >= LifecycleStage(c.status)

C4_StatusOnlyAdvances == [][StatusOnlyAdvances]_vars

\* C5: every cheque's status is always one of the six values of the schema;
\* add_cheque and update_cheque_status with any other text fail with
\* IntegrityError (an update that matches no row answers False) and leave the
\* table unchanged, and the bank-API update writes only values of the six.
StatusInEnum == \A c \in cheques : c.status \in ChequeStatuses

InvalidStatusRejected ==
    /\ (ret'.op = "add_cheque" /\ ret'.status \notin ChequeStatuses) =>
          /\ ret'.outcome = "IntegrityError"
          /\ cheques' = cheques
    /\ (ret'.op = "update_cheque_status" /\ ret'.status \notin ChequeStatuses) =>
          /\ cheques' = cheques
          /\ ret'.value = FALSE
          /\ (\E c \in cheques : c.id = ret'.id) => ret'.outcome = "IntegrityError"
    /\ ret'.op = "update_cheque_status_from_bank_api" =>
          \A d \in cheques' \ cheques : d.status \in ChequeStatuses

ExpectedInternal ==
    [cleared |-> "encaisse", bounced |-> "rejete", returned |-> "rejete",
     pending |-> "en_attente", processing |-> "depose", cancelled |-> "annule"]

BankAnswerUsable(id, resp) ==
    /\ \E c \in cheques :
          /\ c.id = id
          /\ c.branch_id # NULL
          /\ Lower(banks[branches[c.branch_id].bank_id].code) \in api_enabled
    /\ ~resp.raises
    /\ resp.code = 200
    /\ resp.status # NoStatus
    /\ Lower(resp.status) \in DOMAIN ExpectedInternal

BankUpdateOnlyOnKnownAnswer ==
    ret'.op = "update_cheque_status_from_bank_api" =>
        IF BankAnswerUsable(ret'.id, ret'.resp)
        THEN /\ ret'.value = TRUE
             /\ \A c \in cheques : c.id # ret'.id => c \in cheques'
             /\ \E d \in cheques' :
                   /\ d.id = ret'.id
                   /\ d.status = ExpectedInternal[Lower(ret'.resp.status)]
             /\ Cardinality(cheques') = Cardinality(cheques)
        ELSE /\ ret'.value = FALSE
             /\ cheques' = cheques

C10_BankUpdateOnlyOnKnownAnswer == [][BankUpdateOnlyOnKnownAnswer]_vars

C10_Witness ==
    /\ ret.op = "update_cheque_status_from_bank_api"
    /\ ret.value = TRUE
    /\ ret.resp.status = "processing"
    /\ \E c \in cheques : c.id = ret.id /\ c.status = "depose"

-----------------------------------------------------------------------------
(* Payment reminders: cheques entered with a client, reminder runs, the     *)
(* notifications dialog and the passing of days.                           *)

NextRemind ==
    \/ \E form \in FormInputs : save_cheque(form)
    \/ send_automated_reminders
    \/ clear_all
    \/ \E n \in notifications : delete_selected_notification(n)
    \/ next_day

SpecRemind == Init /\ [][NextRemind]_vars

\* C7: for every cheque and calendar day, whatever runs of
\* send_automated_reminders and deletions of notifications happen, the client
\* is sent a payment reminder for that cheque at most once: two deliveries for
\* the same cheque on the same day belong to the same run.
ReminderAtMostOncePerDay ==
    \A s1 \in sent : \A s2 \in sent :
        (s1.cheque_id = s2.cheque_id /\ s1.day = s2.day) => s1.run = s2.run

C7_ReminderAtMostOncePerDay == [](ReminderAtMostOncePerDay)

-----------------------------------------------------------------------------
(* Sessions: creation, validation, invalidation, clean-up, the clock and    *)
(* the backup and restore of the database file.                            *)

NextSess ==
    \/ \E u \in {CurrentUser, NoSuchUser} : create_user_session(u, "t1")
    \/ \E t \in SessionTokens : validate_session(t)
    \/ \E t \in SessionTokens : invalidate_session(t)
    \/ cleanup_expired_sessions
    \/ tick(session_timeout)
    \/ create_backup
    \/ restore_backup

SpecSess == Init /\ [][NextSess]_vars

\* validate_session answers user data only for a token whose row was active
\* and not past its expires_at when it was called
ValidatesOnlyLiveSession ==
    (ret'.op = "validate_session" /\ ret'.value = "data") =>
        \E s \in user_sessions :
            /\ s.session_token = ret'.token
            /\ s.is_active
            /\ ~(now > s.expires_at)

\* validate_session answers None for a token whose row is inactive, and leaves
\* no row of an expired session active
DeactivatedStaysRefused ==
    ret'.op = "validate_session" =>
        /\ (\E s \in user_sessions : s.session_token = ret'.token /\ ~s.is_active)
               => ret'.value = "None"
        /\ \A s \in user_sessions' :
               (s.session_token = ret'.token /\ s.is_active /\ s.user_id \in DOMAIN users)
                   => ~(now > s.expires_at)

\* A session row that is inactive is inactive after the step
NoReactivation ==
    \A s \in user_sessions : \A r \in user_sessions' :
        (s.session_token = r.session_token /\ ~s.is_active) => ~r.is_active

\* C8 as stated: validate_session returns user data only for an active,
\* unexpired session, and no operation reactivates a session row, so a session
\* once invalidated, found expired or cleaned up is refused ever after.
C8_NoOperationReactivates ==
    [][ValidatesOnlyLiveSession /\ DeactivatedStaysRefused /\ NoReactivation]_vars

\* C8 amended: validate_session returns user data only for an active,
\* unexpired session and refuses a deactivated one; create_user_session,
\* validate_session, invalidate_session and cleanup_expired_sessions never
\* reactivate a session row; only restore_backup, which replaces the database
\* file, can bring back a row that was active when the backup was made.
C8_OnlyRestoreReactivates ==
    [][/\ ValidatesOnlyLiveSession
       /\ DeactivatedStaysRefused
       /\ (ret'.op # "restore_backup" => NoReactivation)]_vars

\* A session found expired by validate_session: deactivated, None returned
C8_Witness ==
    /\ ret.op = "validate_session"
    /\ ret.value = "None"
    /\ \E s \in user_sessions :
          /\ s.session_token = ret.token
          /\ ~s.is_active
          /\ now > s.expires_at
          /\ s.user_id \in DOMAIN users

-----------------------------------------------------------------------------
(* Failures inside the public methods *)

NextErr == \E method \in PublicMethods : \E error \in Errors \cup {NoError} :
               call(method, error)

SpecErr == Init /\ [][NextErr]_vars

PropagatingMethods ==
    (DatabaseManagerMethods \ {"backup_database"})
        \cup {"encrypt_sensitive_data", "decrypt_sensitive_data", "hash_password",
              "validate_password_policy", "generate_session_token",
              "check_gdpr_compliance", "sanitize_input", "check_user_permissions"}

-----------------------------------------------------------------------------
(* Bulk import of a file, with cheques entered meanwhile *)

\* The files of the model: up to MaxRows rows
ImportFiles == UNION {[1..n -> ImportRows] : n \in 0..MaxRows}

NextImport ==
    \/ \E data \in ChequeInputs : add_cheque(data) /\ UNCHANGED import_job
    \/ bulk_import_missing_columns
    \/ \E file \in ImportFiles : bulk_import_begin(file)
    \/ bulk_import_next
    \/ bulk_import_return

SpecImport == Init /\ [][NextImport]_vars

\* C11: for a file with the required columns bulk_import_cheques accounts for
\* every row exactly once: a row is either inserted and counted in imported or
\* gives exactly one entry of errors, so imported + len(errors) = total_rows,
\* and imported counts the cheque rows the call added to the table.
RowsAccounted ==
    /\ import_job.active =>
          import_job.imported + Len(import_job.errors) + Len(import_job.pending)
              = import_job.total_rows
    /\ (ret.op = "bulk_import_cheques" /\ ret.success) =>
          ret.imported + ret.errors = ret.total_rows

ImportedCountsAddedRows ==
    ret'.op = "bulk_import_row" =>
        /\ import_job'.imported - import_job.imported = Cardinality(cheques' \ cheques)
        /\ Len(import_job'.errors) - Len(import_job.errors)
              = 1 - Cardinality(cheques' \ cheques)
        /\ cheques \subseteq cheques'

C11_EveryRowAccounted == [](RowsAccounted) /\ [][ImportedCountsAddedRows]_vars

C11_Witness ==
    /\ ret.op = "bulk_import_cheques"
    /\ ret.success
    /\ ret.total_rows = 2
    /\ ret.imported + ret.errors = 2

-----------------------------------------------------------------------------
(* The scoring functions on every combination of their sub-criteria *)

\* The dicts _calculate_cheque_similarity compares
ScoreCheques ==
    [cheque_number : ChequeNumbers, amount : Amounts, client_id : {NULL, 1},
     branch_id : BranchIds]

\* created_at values: three days, and NULL for a value strptime rejects
ScoreDates == {NULL, 1, 2, 9}

\* The rows _calculate_similarity_score is given
ScoreRows ==
    [number1 : {"A1"}, number2 : ChequeNumbers, amount1 : {100}, amount2 : Amounts,
     client1 : {NULL, 1}, client2 : {NULL, 1}, date1 : ScoreDates, date2 : ScoreDates]

NextScore ==
    \/ \E c1 \in ScoreCheques : \E c2 \in ScoreCheques :
          call_calculate_cheque_similarity(c1, c2)
    \/ \E row \in ScoreRows : call_calculate_similarity_score(row)

SpecScore == Init /\ [][NextScore]_vars

ScoreOps == {"_calculate_cheque_similarity", "_calculate_similarity_score"}

\* C12: both scoring functions return a score within [0, 1] (0..10000 in the
\* units of the model) for every combination of matching and non-matching
\* sub-criteria.
C12_ScoreWithinUnitInterval ==
    [](ret.op \in ScoreOps => (ret.score >= 0 /\ ret.score <= 10000))

\* Number, amount, client and date all match: 1.2 before the cap, 1.0 returned
C12_Witness ==
    /\ ret.op = "_calculate_similarity_score"
    /\ ret.row.number1 = ret.row.number2
    /\ ret.row.amount1 = ret.row.amount2
    /\ ret.row.client1 = ret.row.client2
    /\ date_points(ret.row) = 2000
    /\ ret.score = 10000

\* The sub-criteria a pair satisfies
CriteriaOfPair(c1, c2) ==
    {k \in {"number", "amount", "client", "branch"} :
        \/ k = "number" /\ c1.cheque_number = c2.cheque_number
        \/ k = "amount" /\ c1.amount = c2.amount
        \/ k = "client" /\ c1.client_id = c2.client_id
        \/ k = "branch" /\ c1.branch_id = c2.branch_id}

CriteriaOfRow(row) ==
    {k \in {"number", "amount", "client", "date"} :
        \/ k = "number" /\ row.number1 = row.number2
        \/ k = "amount" /\ row.amount1 = row.amount2
        \/ k = "client" /\ row.client1 = row.client2
        \/ k = "date" /\ date_points(row) > 0}

\* C13 as stated: for both scoring functions a pair that satisfies more
\* sub-criteria never scores lower than a pair that satisfies fewer.
C13_MonotonicInCount ==
    [](/\ ret.op = "_calculate_cheque_similarity" =>
             \A d1 \in ScoreCheques : \A d2 \in ScoreCheques :
                 Cardinality(CriteriaOfPair(d1, d2))
                         < Cardinality(CriteriaOfPair(ret.c1, ret.c2))
                     => calculate_cheque_similarity(d1, d2) <= ret.score
       /\ ret.op = "_calculate_similarity_score" =>
             \A row \in ScoreRows :
                 Cardinality(CriteriaOfRow(row)) < Cardinality(CriteriaOfRow(ret.row))
                     => calculate_similarity_score(row) <= ret.score)

\* C13 amended: for both scoring functions a pair that satisfies every
\* sub-criterion another pair satisfies (and is at least as close in date)
\* never scores lower than that other pair.
C13_MonotonicInCriteria ==
    [](/\ ret.op = "_calculate_cheque_similarity" =>
             \A d1 \in ScoreCheques : \A d2 \in ScoreCheques :
                 CriteriaOfPair(d1, d2) \subseteq CriteriaOfPair(ret.c1, ret.c2)
                     => calculate_cheque_similarity(d1, d2) <= ret.score
       /\ ret.op = "_calculate_similarity_score" =>
             \A row \in ScoreRows :
                 (/\ CriteriaOfRow(row) \subseteq CriteriaOfRow(ret.row)
                  /\ date_points(row) <= date_points(ret.row))
                     => calculate_similarity_score(row) <= ret.score)

\* Number, client and branch match, the amount does not
C13_Witness ==
    /\ ret.op = "_calculate_cheque_similarity"
    /\ CriteriaOfPair(ret.c1, ret.c2) = {"number", "client", "branch"}
    /\ ret.score = 7001

-----------------------------------------------------------------------------
(* Duplicate reports on cheques entered over several days *)

\* cheque_data of the cheques entered
DupInputs ==
    [cheque_number : ChequeNumbers, branch_id : BranchIds, client_id : {NULL, 1},
     amount : Amounts, status : {"en_attente"}, due_date : {1}]

\* cheque_data of the cheque looked up
DupLookups == {data \in DupInputs : data.cheque_number = "A1" /\ data.branch_id = 1}

NextDup ==
    \/ \E data \in DupInputs : add_cheque(data) /\ UNCHANGED import_job
    \/ \E n \in {5, 8} : days_pass(n)
    \/ \E data \in DupLookups : call_detect_advanced_duplicates(data)
    \/ get_duplicate_detection_analysis

SpecDup == Init /\ [][NextDup]_vars

\* C14: detect_advanced_duplicates and get_duplicate_detection_analysis report
\* a pair exactly when its similarity score is at or above 0.7 (7000 in the
\* units of the model) and omit every pair that scores below.
ReportsAtOrAboveThreshold ==
    /\ ret'.op = "detect_advanced_duplicates" =>
          ret'.reported =
              {m.id : m \in {c \in cheques :
                                calculate_cheque_similarity(ret'.data, c) >= 7000}}
    /\ ret'.op = "get_duplicate_detection_analysis" =>
          ret'.reported =
              {<<pair[1].id, pair[2].id>> :
                  pair \in {q \in cheques \X cheques :
                              /\ q[1].id < q[2].id
                              /\ calculate_similarity_score(PairRow(q[1], q[2])) >= 7000}}

C14_ReportsAtOrAboveThreshold == [][ReportsAtOrAboveThreshold]_vars

-----------------------------------------------------------------------------
(* The risk scores on client histories *)

\* Numbers of cheques of a client and, of these, of bounced ones
ChequeCounts == {1, 10, 50}
BouncedCounts == {0, 1, 10, 50}

\* The aggregates calculate_client_risk_profiles passes (HAVING total_cheques > 0)
RiskFeatures ==
    {f \in [total_cheques : ChequeCounts, bounced_cheques : BouncedCounts,
            total_amount : {5000, 20000, 60000}, avg_processing_time : {0, 20, 40},
            last_bounce : {NoDate, BadDate} \cup {DaysAgo(n) : n \in {10, 60, 120, 200}}] :
        f.bounced_cheques <= f.total_cheques}

\* The row of the SELECT of calculate_ai_risk_score; last_cheque is days since
\* the last cheque, negative for a date ahead of
\* the clock; raises stands for an exception anywhere in the body, which
\* happens before or instead of the SELECT (one row stands for all)
AiFeatures ==
    {f \in [raises : BOOLEAN, total_cheques : ChequeCounts \cup {0},
            bounced_cheques : BouncedCounts, avg_amount : {100, 60000},
            avg_processing_time : {0, 20, 60},
            last_cheque : {BadDate} \cup {DaysAgo(n) : n \in {-600, 30, 3000}},
            banks_used : {1, 5}] :
        /\ f.bounced_cheques <= f.total_cheques
        /\ f.raises => (f.total_cheques = 0 /\ f.avg_amount = 100
                            /\ f.avg_processing_time = 0 /\ f.last_cheque = BadDate
                            /\ f.banks_used = 1)}

NextRisk ==
    \/ \E f \in RiskFeatures : call_calculate_risk_score(f)
    \/ \E f \in AiFeatures : call_calculate_ai_risk_score(f)

SpecRisk == Init /\ [][NextRisk]_vars

RiskOps == {"_calculate_risk_score", "calculate_ai_risk_score"}

\* C15: both risk-scoring functions return a score within [0, 100] (0..100000
\* in the units of the model) for every client history, the client without
\* cheques and the error path included.
C15_RiskScoreWithinBounds ==
    [](ret.op \in RiskOps => (ret.score >= 0 /\ ret.score <= 100000))

\* A client whose last cheque is dated ahead of the clock: the weighted sum is
\* negative and the score is 0
C15_Witness ==
    /\ ret.op = "calculate_ai_risk_score"
    /\ ~ret.features.raises
    /\ ret.features.total_cheques > 0
    /\ ai_weighted_sum(ret.features) < 0
    /\ ret.score = 0

\* C16: with all other features held fixed, the score of both risk-scoring
\* functions never decreases when the client's bounce rate increases.
C16_RiskNonDecreasingInBounceRate ==
    [](/\ ret.op = "_calculate_risk_score" =>
             \A b \in BouncedCounts :
                 (b >= ret.features.bounced_cheques /\ b <= ret.features.total_cheques)
                     => calculate_risk_score([ret.features EXCEPT !.bounced_cheques = b])
                            >= ret.score
       /\ ret.op = "calculate_ai_risk_score" =>
             \A b \in BouncedCounts :
                 (b >= ret.features.bounced_cheques /\ b <= ret.features.total_cheques)
                     => calculate_ai_risk_score([ret.features EXCEPT !.bounced_cheques = b])
                            >= ret.score)

\* A client with one bounced cheque out of ten scores above the same client
\* with none
C16_Witness ==
    /\ ret.op = "_calculate_risk_score"
    /\ ret.features.total_cheques = 10
    /\ ret.features.bounced_cheques = 1
    /\ ret.score > calculate_risk_score([ret.features EXCEPT !.bounced_cheques = 0])

-----------------------------------------------------------------------------
(* Roles of user rows against the permission table *)

\* Texts a caller passes as user_role: the roles of the users table, the
\* values of the enum and a text in neither
RoleTexts == users_role_check \cup UserRole \cup {"guest"}

NextPerm ==
    \/ \E u \in DOMAIN users, p \in Permissions :
          call_check_user_permissions(users[u].role, p)
    \/ \E role \in RoleTexts, p \in Permissions :
          call_check_user_permissions(role, p)

SpecPerm == Init /\ [][NextPerm]_vars

\* C17: every role a user row can hold (admin, comptable, agent, readonly) is
\* granted at least 'cheque.read' by check_user_permissions, and only texts
\* outside that role set are denied every permission.
C17_EveryRoleReadsCheques ==
    [](ret.op = "check_user_permissions" =>
          /\ (ret.user_role \in users_role_check /\ ret.required_permission = "cheque.read")
                => ret.value
          /\ (\A p \in Permissions : ~check_user_permissions(ret.user_role, p))
                => ret.user_role \notin users_role_check)

-----------------------------------------------------------------------------
(* Reminder runs on the UI thread and on the background thread *)

\* Forms of cheques with a client, entered under one number
RaceForms ==
    {form \in FormInputs :
        form.cheque_number = "A1" /\ form.amount = 100 /\ form.client_name = "Ali"}

\* A handler of the UI thread runs only while that thread is not inside
\* send_automated_reminders
NextRace ==
    \/ /\ reminder_threads["ui"].pc = "idle"
       /\ \E form \in RaceForms : save_cheque(form)
    \/ \E t \in Threads : reminders_select(t)
    \/ \E t \in Threads : reminders_check(t)
    \/ \E t \in Threads : reminders_send(t)
    \/ \E t \in Threads : reminders_log(t)
    \/ \E t \in Threads : reminders_return(t)

SpecRace == Init /\ [][NextRace]_vars

\* C18: when send_automated_reminders runs on the background thread while the
\* periodic run is on the UI thread, no cheque is sent two reminders: on any
\* day at most one reminder of a cheque is handed to the gateways.
C18_NoDoubleSendAcrossThreads ==
    [](\A c \in cheques :
          Cardinality({s \in sent : s.cheque_id = c.id /\ s.day = today}) <= 1)

-----------------------------------------------------------------------------
(* The status update and its notification as one transaction *)

NextAtomic ==
    \/ \E data \in StatusChequeInputs : add_cheque(data)
    \/ \E id \in 1..MaxCheques : \E st \in StatusInputs : \E insert_raises \in BOOLEAN :
          call_update_cheque_status(id, st, CurrentUser, insert_raises)
    \/ clear_all

SpecAtomic == Init /\ [][NextAtomic]_vars

\* The status_change notifications a step adds for cheque id
AddedStatusNotifications(id) ==
    {n \in notifications' \ notifications : n.type = "status_change" /\ n.cheque_id = id}

\* C19: update_cheque_status, called for a user, applies the status update and
\* its status_change notification atomically.  A call whose status carries a
\* notification (encaisse, rejete, impaye, annule) either leaves the cheque
\* with the new status and one notification added, or, when it fails (the
\* notification insert included), leaves both tables as they were; no call adds
\* a notification without the cheque holding the new status.
StatusAndNotificationTogether ==
    ret'.op = "update_cheque_status" =>
        /\ ret'.outcome # "ok" => (cheques' = cheques /\ notifications' = notifications)
        /\ AddedStatusNotifications(ret'.id) # {} =>
              \E c \in cheques' : c.id = ret'.id /\ c.status = ret'.status
        /\ (ret'.outcome = "ok" /\ ret'.value /\ ret'.status \in StatusMessages) =>
              Cardinality(AddedStatusNotifications(ret'.id)) = 1
        /\ notifications \subseteq notifications'

C19_StatusAndNotificationTogether == [][StatusAndNotificationTogether]_vars

\* The notification insert failed on a cheque that was en_attente: the cheque
\* is still en_attente and has no notification
C19_Witness ==
    /\ ret.op = "update_cheque_status"
    /\ ret.outcome = "OperationalError"
    /\ ret.status \in StatusMessages
    /\ \E c \in cheques : c.id = ret.id /\ c.status = "en_attente"
    /\ \A n \in notifications : n.cheque_id # ret.id

-----------------------------------------------------------------------------
(* Due-date notifications: the periodic task and the manual check, the      *)
(* clearing of notifications, cheques cashed and the passing of days.       *)

\* cheque_data of cheques due on day 1 and on day 5, which is beyond the three
\* days on day 1 and within them on day 2
DueInputs ==
    [cheque_number : {"A1"}, branch_id : BranchIds, client_id : {NULL},
     amount : {100}, status : {"en_attente"}, due_date : {1, 5}]

NextDue ==
    \/ \E data \in DueInputs : add_cheque(data)
    \/ create_due_notifications
    \/ \E c \in cheques : change_status(c, "encaisse")
    \/ clear_all
    \/ next_day

SpecDue == Init /\ [][NextDue]_vars

\* No cheque has two due_soon notifications created the same day
OneDueNotificationPerDay ==
    \A n1 \in notifications : \A n2 \in notifications :
        (/\ n1.type = "due_soon" /\ n2.type = "due_soon"
         /\ n1.cheque_id = n2.cheque_id /\ n1.day = n2.day) => n1.id = n2.id

\* A run that directly follows a run adds nothing
SecondRunAddsNothing ==
    (ret.op = "create_due_notifications" /\ ret'.op = "create_due_notifications")
        => (notifications' = notifications /\ ret'.added = 0)

\* C20: however many times create_due_notifications runs in a day, at most one
\* due_soon notification dated that day exists for any cheque, and a second
\* run with no intervening change adds no notification.
C20_OneDueNotificationPerDay ==
    [](OneDueNotificationPerDay) /\ [][SecondRunAddsNothing]_vars

\* A run that found the notification of the day in place for a cheque due soon
C20_Witness ==
    /\ ret.op = "create_due_notifications"
    /\ ret.added = 0
    /\ \E c \in get_cheques_due_soon : due_notification_exists(c.id)

-----------------------------------------------------------------------------
(* The reminder log against what the gateways delivered *)

\* A run logs a payment_reminder for a cheque only with a delivery of that run
LoggedOnlyWhenSent ==
    ret'.op = "send_automated_reminders" =>
        \A n \in notifications' \ notifications :
            n.type = "payment_reminder" =>
                \E s \in sent' : s.cheque_id = n.cheque_id /\ s.day = today /\ s.run = runs'

\* A run does not skip a due cheque that had no delivery today
UnsentTriedAgain ==
    ret'.op = "send_automated_reminders" =>
        \A c \in due_cheques :
            (\A s \in sent : ~(s.cheque_id = c.id /\ s.day = today))
                => ~reminder_already_sent_today(c.id)

\* C21: a payment_reminder record is written for a cheque only when at least
\* one SMS or email for it was sent successfully, and a cheque whose sends all
\* failed or were skipped is tried again by the next run of the same day.
C21_LoggedOnlyWhenSent == [][LoggedOnlyWhenSent /\ UnsentTriedAgain]_vars

-----------------------------------------------------------------------------
(* The clients table under saves from the cheque form *)

\* A save adds no client row under the name of a client that exists
SaveReusesClient ==
    ret'.op = "save_cheque" =>
        \A new \in clients' \ clients : \A old \in clients : old.name # new.name

\* No two client rows carry the same name
OneRowPerClient ==
    \A c1 \in clients : \A c2 \in clients : c1.name = c2.name => c1.id = c2.id

\* C22: saving a cheque from the form creates a client row only if the named
\* client does not exist yet; several cheques saved for the same client leave
\* exactly one row for that client.
C22_OneRowPerClient == [](OneRowPerClient) /\ [][SaveReusesClient]_vars

\* C28: when the cheque insert fails during save_cheque, the database is left
\* as it was before the save; no client row created by that save remains.
FailedSaveLeavesDatabase ==
    (ret'.op = "save_cheque" /\ ret'.outcome = "error_shown")
        => database_file' = database_file

C28_FailedSaveLeavesDatabase == [][FailedSaveLeavesDatabase]_vars

-----------------------------------------------------------------------------
(* The notifications dialog of the logged-in user, with notifications of    *)
(* both users and notifications without a user in the table.                *)

\* cheque_data of cheques due today
DialogInputs ==
    [cheque_number : {"A1"}, branch_id : BranchIds, client_id : {NULL},
     amount : {100}, status : {"en_attente"}, due_date : {1}]

NextDialog ==
    \/ \E data \in DialogInputs : add_cheque(data)
    \/ create_due_notifications
    \/ \E id \in 1..MaxCheques : \E u \in UserIds : update_cheque_status(id, "rejete", u)
    \/ \E f \in Filters : \E i \in 1..MaxNotifs : on_double_click(f, i)
    \/ \E f \in Filters : \E i \in 1..MaxNotifs : mark_selected_read(f, i)
    \/ \E f \in Filters : \E i \in 1..MaxNotifs : delete_selected(f, i)
    \/ mark_all_read
    \/ clear_all

SpecDialog == Init /\ [][NextDialog]_vars

RowOps == {"on_double_click", "mark_selected_read", "delete_selected"}

\* C23: under every filter (all, unread, due_soon) the double-click, 'mark as
\* read' and 'delete' actions act on exactly the notification shown in the
\* selected row.
C23_ActsOnSelectedRow ==
    [](ret.op \in RowOps => ret.id = ret.shown)

\* C27: the logged-in user's 'mark all read' or 'clear all' changes neither the
\* set nor the read state of the notifications get_notifications returns for
\* any other user.
OtherUsersUntouched ==
    ret'.op \in {"mark_all_read", "clear_all"} =>
        \A u \in UserIds \ {CurrentUser} : get_notifications(u)' = get_notifications(u)

C27_OtherUsersUntouched == [][OtherUsersUntouched]_vars

-----------------------------------------------------------------------------
(* Logins of one user: attempts at the dialog, audit rows, the lockout test *)

NextLogin ==
    \/ \E password_ok \in BOOLEAN : login(CurrentUser, password_ok)
    \/ log_audit_event(CurrentUser, FALSE)
    \/ \E start_day \in {today - 1, today} : check_login_attempts(CurrentUser, start_day)
    \/ tick(session_timeout)

SpecLogin == Init /\ [][NextLogin]_vars

\* The failed attempts at the dialog for the username within lockout_duration
RecentFailures(user_id) ==
    {a \in login_attempts :
        a.username = user_id /\ ~a.success /\ a.at > now - lockout_duration}

\* C24: after max_login_attempts failed logins for a username within
\* lockout_duration seconds the username is locked out: check_login_attempts
\* reports it locked with 0 remaining attempts, and login rejects further
\* attempts, even with the correct password, until the period has passed.
LockedOut ==
    /\ (ret'.op = "login" /\ Cardinality(RecentFailures(ret'.username)) >= max_login_attempts)
          => ~ret'.value
    /\ (ret'.op = "check_login_attempts"
           /\ Cardinality(RecentFailures(ret'.username)) >= max_login_attempts)
          => (ret'.is_locked /\ ret'.remaining_attempts = 0)

C24_LockedOut == [][LockedOut]_vars

-----------------------------------------------------------------------------
(* Saved searches: saves, deletions and search frames created anew *)

\* The searches SaveSearchDialog hands over: a name, the query of the search
\* box and the active filters
SearchInputs ==
    [name : {"s1", "s2"}, query : {"", "A1"}, filters : {<<>>, <<"status">>}]

NextSearch ==
    \/ \E saved_search \in SearchInputs : save_search(saved_search)
    \/ \E selection \in {"s1", "s2"} : delete_saved_search(selection)
    \/ load_saved_searches

SpecSearch == Init /\ [][NextSearch]_vars

\* C25: saved searches round-trip through the database: after any sequence of
\* save_search and delete_saved_search, load_saved_searches on a search frame
\* created anew restores exactly the saved list, with the same names, queries
\* and filters.
LoadRestoresSavedList ==
    ret'.op = "load_saved_searches" => saved_searches' = saved_searches

C25_LoadRestoresSavedList == [][LoadRestoresSavedList]_vars

-----------------------------------------------------------------------------
(* Access of a user who is soft-deleted: sessions, logins, the clock *)

NextAccess ==
    \/ \E u \in UserIds : create_user_session(u, "t1")
    \/ \E u \in UserIds : delete_user(u)
    \/ \E t \in SessionTokens : validate_session(t)
    \/ \E u \in UserIds \ {CurrentUser} : login(u, TRUE)
    \/ tick(session_timeout)

SpecAccess == Init /\ [][NextAccess]_vars

\* C26: once a user is soft-deleted (active = FALSE), login with their correct
\* credentials fails, and validate_session returns None for every session
\* token they still hold.
NoAccessAfterDelete ==
    /\ (ret.op = "login" /\ ret.username \in DOMAIN users /\ ~users[ret.username].active)
          => ~ret.value
    /\ ret.op = "validate_session" =>
          \A s \in user_sessions :
              (/\ s.session_token = ret.token
               /\ s.user_id \in DOMAIN users
               /\ ~users[s.user_id].active) => ret.value = "None"

C26_NoAccessAfterDelete == [](NoAccessAfterDelete)

-----------------------------------------------------------------------------
(* Bulk import: what a rejected row leaves behind *)

\* C29: a row of the import file that is rejected (validation error, branch
\* not found, duplicate detected, or an exception) leaves every table of the
\* database as it was; the only rows that change the database are those
\* counted in imported.
RejectedRowLeavesTables ==
    ret'.op = "bulk_import_row" =>
        /\ ret'.outcome # "imported" => database_file' = database_file
        /\ database_file' # database_file =>
              import_job'.imported = import_job.imported + 1

-----------------------------------------------------------------------------
(* The dashboard: clicks on the check box while callbacks are pending *)

NextDashboard ==
    \/ toggle_auto_refresh
    \/ after_callback
    \/ manual_refresh
    \/ /\ mainloop_idle
       /\ now < MaxTicks * refresh_interval
       /\ tick(refresh_interval)

SpecDashboard == Init /\ [][NextDashboard]_vars

\* C30: whatever sequence of clicks on the auto-refresh check box the user
\* makes, Tk holds at most one pending start_real_time_updates callback of the
\* dashboard at any time.
C30_OnePendingCallback == [](Len(after_callbacks) <= 1)

====
